---- MODULE Spec2Model ----
(***************************************************************************)
(* HGuard: the validation pipeline and policy engine.                      *)
(*                                                                         *)
(* State: the two package-level registries (schema.toolSchemas,            *)
(* policy.policies), the compiled-expression cache (policy.exprCache) and  *)
(* the record of the last operation with its return value.                 *)
(* Operations: RegisterToolSchema, LoadSchemasFromYAML, RegisterPolicy,    *)
(* LoadPoliciesFromYAML, validation.ValidateToolCall and                   *)
(* schema.ValidateAndPolicy (the validator the Guard facade calls).        *)
(***************************************************************************)
EXTENDS Integers, Sequences, FiniteSets, TLC

VARIABLES toolSchemas, policies, exprCache, last, mu, calls, cacheMu, evals,
          rateLimitMap, now, passed, agent

vars ==
  <<toolSchemas, policies, exprCache, last, mu, calls, cacheMu, evals,
    rateLimitMap, now, passed, agent>>

\* the state of the facade (each Guard's mutex and the calls in flight), of
\* the expression cache's own lock (cacheMu and the evaluations in flight),
\* of the HTTP server and of the agent
guardVars == <<mu, calls, cacheMu, evals, rateLimitMap, now, passed, agent>>

\* the state of the HTTP server's rate limiter: the per-client windows, the
\* clock, and the requests that reached the handler in the last minute
serverVars == <<rateLimitMap, now, passed>>

\* the state of the expression cache's lock alone
cacheVars == <<cacheMu, evals>>

(***************************************************************************)
(* Bounds of the model.                                                    *)
(***************************************************************************)
\* largest number of policies held by the registry in Spec
MaxPolicies == 2

(***************************************************************************)
(* Policy types (engine.go:40-47) and result labels (engine.go:48-52).     *)
(***************************************************************************)
PolicyReject == "REJECT"
PolicyRewrite == "REWRITE"
PolicyLog == "LOG"
PolicyAllow == "ALLOW"
PolicyContextReject == "CONTEXT_REJECT"
PolicyRateLimit == "RATE_LIMIT"

ActionRejected == "rejected"
ActionRewritten == "rewritten"
ActionLogged == "logged"
ActionApproved == "approved"

\* the wildcard key of the policy registry
Wildcard == "*"

\* bound handed to the fuzzy matcher by both validators
FuzzyMaxDistance == 2

\* confidence values, in hundredths (1.0, 0.95, 0.9, 0.0)
Conf100 == 100
Conf095 == 95
Conf090 == 90
Conf000 == 0

\* sort.Slice (Go 1.21, pdqsort_func): slices of at most this many
\* elements are sorted by insertion sort
maxInsertion == 12

(***************************************************************************)
(* A policy (engine.go:56-63).                                             *)
(***************************************************************************)
Policy(tool, type, cond, reason, prio, target) ==
  [ToolName |-> tool, Type |-> type, Condition |-> cond, Reason |-> reason,
   Priority |-> prio, Target |-> target]

(***************************************************************************)
(* sort.Slice(xs, func(i, j) bool { xs[i].Priority > xs[j].Priority }) as  *)
(* the Go 1.21 toolchain the README asks for runs it (pdqsort_func).       *)
(* Indices are Go's (from 0); data[i] is xs[i + 1].                        *)
(* Slices of up to maxInsertion elements are insertion-sorted; a longer    *)
(* slice is first checked for being in order, else partitioned around the  *)
(* median of three and both sides sorted in turn.  breakPatterns, the      *)
(* ninther pivot and the heap-sort fallback need slices of 14 or more      *)
(* elements and are left out: no action builds a slice that long.          *)
(***************************************************************************)
Less(x, y) == x.Priority > y.Priority

Swap(data, i, j) ==
  [data EXCEPT ![i + 1] = data[j + 1], ![j + 1] = data[i + 1]]

RECURSIVE insertionInner(_, _, _)
insertionInner(data, a, j) ==
  IF j > a /\ Less(data[j + 1], data[j])
  THEN insertionInner(Swap(data, j, j - 1), a, j - 1)
  ELSE data

RECURSIVE insertionFrom(_, _, _, _)
insertionFrom(data, a, b, i) ==
  IF i < b THEN insertionFrom(insertionInner(data, a, i), a, b, i + 1) ELSE data

insertionSort(data, a, b) == insertionFrom(data, a, b, a + 1)

\* order2_func: the pair (x, y) with data[x] <= data[y], counting the swap
order2(data, x, y, swaps) ==
  IF Less(data[y + 1], data[x + 1])
  THEN [lo |-> y, hi |-> x, swaps |-> swaps + 1]
  ELSE [lo |-> x, hi |-> y, swaps |-> swaps]

\* median_func
median(data, x, y, z, swaps) ==
  LET s1 == order2(data, x, y, swaps)
      s2 == order2(data, s1.hi, z, s1.swaps)
      s3 == order2(data, s1.lo, s2.lo, s2.swaps)
  IN [idx |-> s3.hi, swaps |-> s3.swaps]

\* choosePivot_func for slices shorter than 50 (no ninther)
choosePivot(data, a, b) ==
  LET l == b - a
      i == a + (l \div 4) * 1
      j == a + (l \div 4) * 2
      k == a + (l \div 4) * 3
      m == IF l >= 8 THEN median(data, i, j, k, 0) ELSE [idx |-> j, swaps |-> 0]
  IN [pivot |-> m.idx, increasing |-> (m.swaps = 0)]

\* partialInsertionSort_func on a slice shorter than 50 elements: it
\* reports whether the slice is already in order and moves nothing
partialInsertionSort(data, a, b) ==
  \A i \in (a + 1)..(b - 1) : ~Less(data[i + 1], data[i])

RECURSIVE scanUp(_, _, _, _)
scanUp(data, a, i, j) ==
  IF i <= j /\ Less(data[i + 1], data[a + 1]) THEN scanUp(data, a, i + 1, j) ELSE i

RECURSIVE scanDown(_, _, _, _)
scanDown(data, a, i, j) ==
  IF i <= j /\ ~Less(data[j + 1], data[a + 1]) THEN scanDown(data, a, i, j - 1) ELSE j

RECURSIVE partitionLoop(_, _, _, _)
partitionLoop(data, a, i, j) ==
  LET i1 == scanUp(data, a, i, j)
      j1 == scanDown(data, a, i1, j)
  IN IF i1 > j1
     THEN [data |-> Swap(data, j1, a), mid |-> j1]
     ELSE partitionLoop(Swap(data, i1, j1), a, i1 + 1, j1 - 1)

\* partition_func
partition(data, a, b, pivot) ==
  LET d1 == Swap(data, a, pivot)
      i1 == scanUp(d1, a, a + 1, b - 1)
      j1 == scanDown(d1, a, i1, b - 1)
  IN IF i1 > j1
     THEN [data |-> Swap(d1, j1, a), mid |-> j1]
     ELSE partitionLoop(Swap(d1, i1, j1), a, i1 + 1, j1 - 1)

RECURSIVE pdqsort(_, _, _)
pdqsort(data, a, b) ==
  IF b - a <= maxInsertion
  THEN insertionSort(data, a, b)
  ELSE LET pv == choosePivot(data, a, b)
       IN IF pv.increasing /\ partialInsertionSort(data, a, b)
          THEN data
          ELSE LET pt == partition(data, a, b, pv.pivot)
               IN pdqsort(pdqsort(pt.data, a, pt.mid), pt.mid + 1, b)

SortSlice(xs) == pdqsort(xs, 0, Len(xs))

(***************************************************************************)
(* Go values used by the model.                                            *)
(***************************************************************************)
\* a nil pointer, a nil map
Nil == [nil |-> TRUE]

\* an empty Go map
EmptyMap == [k \in {} |-> Nil]

\* m[k] = v
Put(m, k, v) == [x \in (DOMAIN m) \cup {k} |-> IF x = k THEN v ELSE m[x]]

\* all orders in which a range over a Go map with these keys can visit them
RECURSIVE Orders(_)
Orders(S) ==
  IF S = {} THEN {<<>>}
  ELSE UNION {{<<x>> \o t : t \in Orders(S \ {x})} : x \in S}

(***************************************************************************)
(* Inputs of the model: tool names, schemas, parameter maps, contexts,     *)
(* conditions and policies that the operations draw from.                  *)
(***************************************************************************)
\* a parameter value: its Go dynamic type and, for a string, its length
StringValue(n) == [type |-> "string", len |-> n, num |-> 0]
IntValue(n) == [type |-> "int", len |-> 0, num |-> n]

\* schema.ParameterSchema
ParameterSchema(type, required, maxLength) ==
  [Type |-> type, Required |-> required, MaxLength |-> maxLength]

\* schema.ToolSchema
ToolSchema(name, params) == [Name |-> name, Parameters |-> params]

SchemaCatalogue ==
  { ToolSchema("weather", [location |-> ParameterSchema("string", TRUE, 0)]),
    ToolSchema("tether", [location |-> ParameterSchema("string", FALSE, 0)]) }

\* the names a request can carry
RequestNames == {"weather", "wheather", "stock"}

\* the parameter maps a request can carry
ParameterMaps == { [location |-> StringValue(5)], EmptyMap }

\* model.CallContext, reduced to the field the conditions below read
Contexts == { [UserRole |-> "admin"], [UserRole |-> ""] }

\* model.ToolCall
ToolCalls ==
  [ID : {"call_1"}, Name : RequestNames, Parameters : ParameterMaps,
   Context : Contexts, Timestamp : {"t0"}]

condAdmin == "user.role == 'admin'"
\* names an identifier the environment does not have: expr.Compile fails
condUnknownName == "usr.role == 'admin'"
\* compiles, and fails at run time when params has no number under amount
condAmount == "params.amount > 1000"
\* compiles, and runs on every context
condNotAdmin == "user.role != 'admin'"
\* conditions over the caller's permissions and the session's earlier calls
condHasPermission == "'p' in user.permissions"
condPreviousCall == "'X' in session.previous_calls"

\* the policies of the documented policy file
WeatherAllow == Policy("weather", PolicyAllow, "", "", 0, "")
FallbackReject == Policy(Wildcard, PolicyReject, "", "Unknown tool", 1, "")
TypoRewrite == Policy("wheather", PolicyRewrite, "", "Auto-corrected typo", 0, "weather")

PolicyCatalogue ==
  { WeatherAllow, FallbackReject, TypoRewrite,
    Policy("weather", PolicyAllow, condAdmin, "", 2, ""),
    Policy("weather", PolicyReject, condUnknownName, "Blocked", 2, ""),
    Policy("weather", PolicyContextReject, condAmount, "", 1, ""),
    Policy("weather", PolicyRateLimit, "", "Rate limited", 1, ""),
    Policy("weather", "AUDIT", "", "", 2, ""),
    Policy("weather", PolicyLog, "", "", 0, ""),
    Policy(Wildcard, PolicyRewrite, "", "", 0, "tether") }

\* the policy documents a load can read
PolicyFiles ==
  { <<>>,
    <<WeatherAllow, FallbackReject>>,
    <<TypoRewrite, WeatherAllow, FallbackReject>>,
    <<Policy("weather", PolicyReject, condUnknownName, "Blocked", 2, "")>> }

\* the schema documents a load can read
SchemaFiles ==
  { <<>>,
    <<ToolSchema("weather", [location |-> ParameterSchema("string", TRUE, 0)])>>,
    <<ToolSchema("weather", [location |-> ParameterSchema("string", TRUE, 0)]),
      ToolSchema("tether", [location |-> ParameterSchema("string", FALSE, 0)])>> }

(***************************************************************************)
(* package fuzzy (validator.go:86-151).                                    *)
(***************************************************************************)
\* a[i] of a Go string, i from 0
CharAt(a, i) == SubSeq(a, i + 1, i + 1)

min(a, b, c) ==
  IF a < b /\ a < c THEN a
  ELSE IF b < c THEN b
  ELSE c

\* row i of the table dp, filled from j = 1 on; dp[i][j] is row[j + 1]
RECURSIVE dpRow(_, _, _, _, _, _)
dpRow(a, b, i, prev, row, j) ==
  IF j > Len(b) THEN row
  ELSE LET cost == IF CharAt(a, i - 1) # CharAt(b, j - 1) THEN 1 ELSE 0
       IN dpRow(a, b, i, prev,
                Append(row, min(prev[j + 1] + 1, row[j] + 1, prev[j] + cost)),
                j + 1)

\* the rows of dp from row i on, given row i - 1; the result is dp[la][lb]
RECURSIVE dpRows(_, _, _, _)
dpRows(a, b, i, prev) ==
  IF i > Len(a) THEN prev[Len(b) + 1]
  ELSE dpRows(a, b, i + 1, dpRow(a, b, i, prev, <<i>>, 1))

LevenshteinDistance(a, b) ==
  LET la == Len(a)
      lb == Len(b)
  IN IF la = 0 THEN lb
     ELSE IF lb = 0 THEN la
     ELSE dpRows(a, b, 1, [j \in 1..(lb + 1) |-> j - 1])

\* a requested name at distance 1 from two catalogue names (weather, tether)
NearMissNames == {"wether"}

\* short strings the matcher is called with directly, as input and as known names
FuzzyStrings == {"", "a", "b", "ab", "ba", "abc"}

\* LevenshteinDistance over the names of the model, computed once
Distances ==
  [a \in RequestNames \cup NearMissNames \cup FuzzyStrings
            \cup {sc.Name : sc \in SchemaCatalogue},
   b \in FuzzyStrings \cup {sc.Name : sc \in SchemaCatalogue}
     |-> LevenshteinDistance(a, b)]

RECURSIVE fuzzyLoop(_, _, _, _, _)
fuzzyLoop(input, known, k, closest, minDist) ==
  IF k > Len(known) THEN [closest |-> closest, minDist |-> minDist]
  ELSE IF Distances[input, known[k]] < minDist
  THEN fuzzyLoop(input, known, k + 1, known[k], Distances[input, known[k]])
  ELSE fuzzyLoop(input, known, k + 1, closest, minDist)

\* a matcher that refuses a closest name lying exactly at the bound
FuzzyMatchBelowBound(input, known, maxDistance) ==
  LET r == fuzzyLoop(input, known, 1, "", maxDistance + 1)
  IN IF r.minDist < maxDistance
     THEN [name |-> r.closest, dist |-> r.minDist]
     ELSE [name |-> "", dist |-> -1]

\* returns the closest name and its distance, or ("", -1)
FuzzyMatchToolName(input, known, maxDistance) ==
  LET r == fuzzyLoop(input, known, 1, "", maxDistance + 1)
  IN IF r.minDist <= maxDistance
     THEN [name |-> r.closest, dist |-> r.minDist]
     ELSE [name |-> "", dist |-> -1]

(***************************************************************************)
(* package policy: the registry (engine.go:74-120).                        *)
(***************************************************************************)
\* policies[name], nil when the map has no such key
PoliciesOf(reg, name) == IF name \in DOMAIN reg THEN reg[name] ELSE <<>>

\* RegisterPolicy: append to the tool's list, then sort by priority
RegisterPolicyIn(reg, p) ==
  Put(reg, p.ToolName, SortSlice(Append(PoliciesOf(reg, p.ToolName), p)))

\* the tool's policies, then the wildcard's, left as appended
GetAllPoliciesUnsorted(reg, toolName) ==
  PoliciesOf(reg, toolName) \o PoliciesOf(reg, Wildcard)

\* GetAllPolicies: the tool's policies, then the wildcard's, sorted
GetAllPolicies(reg, toolName) ==
  SortSlice(PoliciesOf(reg, toolName) \o PoliciesOf(reg, Wildcard))

\* a GetAllPolicies that starts from the registry's own slice of the tool:
\* the sort then permutes the registry's backing array
AliasesToolList(reg, toolName) == {toolName} \cap DOMAIN reg

\* the registry lists whose backing array the slice sorted by GetAllPolicies
\* shares: none, as append onto the nil slice allPolicies allocates a new
\* array and the second append extends that one (engine.go:101-111)
Aliases(reg, toolName) == {}

\* the registry after GetAllPolicies(toolName): sort.Slice permutes the
\* arrays that allPolicies shares (engine.go:114-116)
PoliciesAfterGetAll(reg, toolName) ==
  [k \in DOMAIN reg |->
     IF k \in Aliases(reg, toolName)
     THEN SubSeq(GetAllPolicies(reg, toolName), 1, Len(reg[k]))
     ELSE reg[k]]

\* a load that keeps what was registered before
KeepPolicies(reg) == reg

\* LoadPoliciesFromYAML, "Clear existing policies" (engine.go:287-288)
ClearPolicies(reg) == EmptyMap

RECURSIVE RegisterAll(_, _)
RegisterAll(reg, ps) ==
  IF ps = <<>> THEN reg ELSE RegisterAll(RegisterPolicyIn(reg, Head(ps)), Tail(ps))

(***************************************************************************)
(* package policy: conditions (engine.go:171-249).  A compiled program is  *)
(* identified by its source; the cache maps a source to its program.       *)
(***************************************************************************)
\* expr.Compile(condition, expr.Env(env)) succeeds
Compiles(condition) ==
  condition \in {condAdmin, condNotAdmin, condAmount, condHasPermission,
                 condPreviousCall}

\* the *vm.Program that expr.Compile returns for a source that compiles
Compile(condition) == [source |-> condition]

\* a cache keyed by the text before the first blank of the source
CacheKeyFirstWord(condition) == SubSeq(condition, 1, 9)

\* the key of exprCache: the source, verbatim (engine.go:220, 233)
CacheKey(condition) == condition

\* expr.Run(program, env): the value, or an error
RunProgram(program, tc) ==
  IF program.source = condAdmin
    THEN [err |-> FALSE, value |-> (tc.Context.UserRole = "admin")]
  ELSE IF program.source = condNotAdmin
    THEN [err |-> FALSE, value |-> (tc.Context.UserRole # "admin")]
  ELSE IF program.source = condHasPermission
    THEN [err |-> FALSE,
          value |-> \E i \in 1..Len(tc.Context.UserPermissions) :
                      tc.Context.UserPermissions[i] = "p"]
  ELSE IF program.source = condPreviousCall
    THEN [err |-> FALSE,
          value |-> \E i \in 1..Len(tc.Context.PreviousCalls) :
                      tc.Context.PreviousCalls[i] = "X"]
  ELSE IF /\ "amount" \in DOMAIN tc.Parameters
          /\ tc.Parameters["amount"].type \in {"int", "float64"}
    THEN [err |-> FALSE, value |-> (tc.Parameters["amount"].num > 1000)]
  ELSE [err |-> TRUE, value |-> FALSE]

\* evaluateCondition: (match, err) and the cache it leaves
evaluateCondition(condition, tc, cache) ==
  IF CacheKey(condition) \in DOMAIN cache
  THEN LET r == RunProgram(cache[CacheKey(condition)], tc)
       IN [match |-> r.value /\ ~r.err, err |-> r.err, cache |-> cache]
  ELSE IF ~Compiles(condition)
  THEN [match |-> FALSE, err |-> TRUE, cache |-> cache]
  ELSE LET r == RunProgram(Compile(condition), tc)
       IN [match |-> r.value /\ ~r.err, err |-> r.err,
           cache |-> Put(cache, CacheKey(condition), Compile(condition))]

(***************************************************************************)
(* package policy: EvaluatePolicy (engine.go:122-169).                     *)
(***************************************************************************)
\* the result a matching policy produces
MatchResult(policy, tc) ==
  [Action |-> policy.Type,
   Reason |-> IF policy.Condition # "" /\ policy.Reason = ""
              THEN "Policy " \o policy.Type \o " matched for tool " \o tc.Name
              ELSE policy.Reason,
   Target |-> policy.Target,
   Matched |-> TRUE,
   PolicyID |-> policy.ToolName \o ":" \o policy.Type]

DefaultAllow ==
  [Action |-> PolicyAllow, Reason |-> "No matching policies found",
   Target |-> "", Matched |-> FALSE, PolicyID |-> "default:allow"]

RECURSIVE evaluateLoop(_, _, _, _)
evaluateLoop(allPolicies, k, tc, cache) ==
  IF k > Len(allPolicies) THEN [result |-> DefaultAllow, cache |-> cache]
  ELSE LET policy == allPolicies[k]
       IN IF policy.Condition = ""
          THEN [result |-> MatchResult(policy, tc), cache |-> cache]
          ELSE LET e == evaluateCondition(policy.Condition, tc, cache)
               IN IF e.err THEN evaluateLoop(allPolicies, k + 1, tc, e.cache)
                  ELSE IF e.match
                  THEN [result |-> MatchResult(policy, tc), cache |-> e.cache]
                  ELSE evaluateLoop(allPolicies, k + 1, tc, e.cache)

EvaluatePolicy(reg, tc, cache) ==
  evaluateLoop(GetAllPolicies(reg, tc.Name), 1, tc, cache)

(***************************************************************************)
(* package schema: ValidateParameters (part_009:248-280).  The range over  *)
(* schema.Parameters visits the names in the order given by `order`.       *)
(***************************************************************************)
NoError == [failed |-> FALSE, msg |-> ""]
Errorf(msg) == [failed |-> TRUE, msg |-> msg]

\* one declared parameter against the supplied value
CheckParameter(paramName, paramSchema, params) ==
  LET exists == paramName \in DOMAIN params
      value == params[paramName]
  IN IF paramSchema.Required /\ ~exists
       THEN Errorf("missing required parameter: " \o paramName)
     ELSE IF ~exists THEN NoError
     ELSE IF paramSchema.Type = "string"
       THEN IF value.type # "string"
              THEN Errorf("parameter " \o paramName \o " should be a string")
            ELSE IF paramSchema.MaxLength > 0 /\ value.len > paramSchema.MaxLength
              THEN Errorf("parameter " \o paramName \o " exceeds max length")
            ELSE NoError
     ELSE IF paramSchema.Type = "number"
       THEN IF value.type \notin {"float64", "int"}
              THEN Errorf("parameter " \o paramName \o " should be a number")
            ELSE NoError
     ELSE IF paramSchema.Type = "boolean"
       THEN IF value.type # "bool"
              THEN Errorf("parameter " \o paramName \o " should be a boolean")
            ELSE NoError
     ELSE NoError

RECURSIVE validateLoop(_, _, _, _)
validateLoop(schema, params, order, k) ==
  IF k > Len(order) THEN NoError
  ELSE LET e == CheckParameter(order[k], schema.Parameters[order[k]], params)
       IN IF e.failed THEN e ELSE validateLoop(schema, params, order, k + 1)

ValidateParameters(schema, params, order) == validateLoop(schema, params, order, 1)

(***************************************************************************)
(* model.ValidationResult and the corrected call it may carry.             *)
(***************************************************************************)
Correction(tc, name) ==
  [ID |-> tc.ID, Name |-> name, Parameters |-> tc.Parameters,
   Context |-> tc.Context, Timestamp |-> tc.Timestamp]

Result(tc, status, confidence, reason, allowed, action, mods, correction) ==
  [ToolCallID |-> tc.ID, Status |-> status, Confidence |-> confidence,
   Reason |-> reason, ExecutionAllowed |-> allowed, PolicyAction |-> action,
   Modifications |-> mods, SuggestedCorrection |-> correction]

(***************************************************************************)
(* package validation: ValidateToolCall (part_009:13-158).  `known` is the *)
(* order in which the range over the schema map yields the names, `order`  *)
(* the order in which ValidateParameters visits the declared parameters.   *)
(***************************************************************************)
\* the mapping of the engine's action to the result (part_009:89-157)
PolicyOutcome(tc, policyResult) ==
  IF policyResult.Action \in {PolicyReject, PolicyContextReject}
    THEN Result(tc, "rejected", Conf100, policyResult.Reason, FALSE,
                ActionRejected, Nil, Nil)
  ELSE IF policyResult.Action = PolicyRewrite
    THEN LET target == IF policyResult.Target = "" THEN tc.Name
                       ELSE policyResult.Target
         IN Result(tc, "rewritten", Conf100, policyResult.Reason, TRUE,
                   ActionRewritten, [name |-> target], Correction(tc, target))
  ELSE IF policyResult.Action = PolicyLog
    THEN Result(tc, "approved", Conf100, policyResult.Reason, TRUE,
                ActionLogged, Nil, Nil)
  ELSE Result(tc, "approved", Conf100, policyResult.Reason, TRUE,
              ActionApproved, Nil, Nil)

\* a candidate that keeps the misspelled name
SuggestedKeepsName(tc, suggestion) == tc

\* suggestedTC (part_009:23-29): the call under the suggested name
SuggestedTC(tc, suggestion) == Correction(tc, suggestion)

ValidateToolCallOn(schemas, reg, cache, tc, known, order) ==
  IF tc.Name \notin DOMAIN schemas
  THEN LET suggestion == FuzzyMatchToolName(tc.Name, known, FuzzyMaxDistance).name
       IN IF suggestion # ""
          THEN LET ev == EvaluatePolicy(reg, SuggestedTC(tc, suggestion), cache)
               IN IF ev.result.Action = PolicyRewrite
                  THEN [res |-> Result(tc, "rewritten", Conf095,
                                       "Tool name rewritten to '" \o suggestion \o "' by policy",
                                       TRUE, ActionRewritten, [name |-> suggestion],
                                       Correction(tc, suggestion)),
                        cache |-> ev.cache]
                  ELSE [res |-> Result(tc, "rejected", Conf090,
                                       "Unknown tool name. Did you mean '" \o suggestion \o "'?",
                                       FALSE, ActionRejected, Nil,
                                       Correction(tc, suggestion)),
                        cache |-> ev.cache]
          ELSE [res |-> Result(tc, "rejected", Conf100, "Unknown tool name",
                               FALSE, ActionRejected, Nil, Nil),
                cache |-> cache]
  ELSE LET err == ValidateParameters(schemas[tc.Name], tc.Parameters, order)
       IN IF err.failed
          THEN [res |-> Result(tc, "rejected", Conf100,
                               "Parameter validation failed: " \o err.msg,
                               FALSE, ActionRejected, Nil, Nil),
                cache |-> cache]
          ELSE LET ev == EvaluatePolicy(reg, tc, cache)
               IN [res |-> PolicyOutcome(tc, ev.result), cache |-> ev.cache]

(***************************************************************************)
(* package schema: ValidateAndPolicy (part_009:310-405), the validator     *)
(* that Guard.ValidateToolCall runs.                                       *)
(***************************************************************************)
\* the result as initialised at part_009:311-317
InitialResult(tc) ==
  Result(tc, "approved", Conf100, "", TRUE, PolicyAllow, Nil, Nil)

\* the mapping with only the types named in the switch denying or allowing:
\* any other type leaves the status approved and withdraws the permission
AndPolicyOutcomeDenyOther(tc, policyResult) ==
  LET result == [InitialResult(tc) EXCEPT !.PolicyAction = policyResult.Action,
                                          !.Reason = policyResult.Reason]
  IN IF policyResult.Action \in {PolicyReject, PolicyContextReject}
       THEN [result EXCEPT !.Status = "rejected", !.ExecutionAllowed = FALSE]
     ELSE IF policyResult.Action \in {PolicyAllow, PolicyLog}
       THEN result
     ELSE IF policyResult.Action = PolicyRewrite
       THEN LET target == IF policyResult.Target = "" THEN tc.Name
                          ELSE policyResult.Target
            IN [result EXCEPT !.Status = "rewritten",
                              !.SuggestedCorrection = Correction(tc, target),
                              !.Modifications = [name |-> target]]
     ELSE [result EXCEPT !.ExecutionAllowed = FALSE]

\* the mapping of the engine's action to the result (part_009:370-404)
AndPolicyOutcome(tc, policyResult) ==
  LET result == [InitialResult(tc) EXCEPT !.PolicyAction = policyResult.Action,
                                          !.Reason = policyResult.Reason]
  IN IF policyResult.Action \in {PolicyReject, PolicyContextReject}
       THEN [result EXCEPT !.Status = "rejected", !.Confidence = Conf100,
                           !.ExecutionAllowed = FALSE]
     ELSE IF policyResult.Action \in {PolicyAllow, PolicyLog}
       THEN [result EXCEPT !.Status = "approved", !.Confidence = Conf100,
                           !.ExecutionAllowed = TRUE]
     ELSE IF policyResult.Action = PolicyRewrite
       THEN LET target == IF policyResult.Target = "" THEN tc.Name
                          ELSE policyResult.Target
            IN [result EXCEPT !.Status = "rewritten", !.Confidence = Conf100,
                              !.ExecutionAllowed = TRUE,
                              !.SuggestedCorrection = Correction(tc, target),
                              !.Modifications = [name |-> target]]
     ELSE result

ValidateAndPolicyOn(schemas, reg, cache, tc, known, order) ==
  IF tc.Name \notin DOMAIN schemas
  THEN LET ev == EvaluatePolicy(reg, tc, cache)
           rejected == [InitialResult(tc) EXCEPT !.Status = "rejected",
                                                 !.Confidence = Conf000,
                                                 !.ExecutionAllowed = FALSE,
                                                 !.PolicyAction = PolicyReject]
       IN IF ev.result.Action = PolicyRewrite
          THEN LET suggestion == FuzzyMatchToolName(tc.Name, known, FuzzyMaxDistance).name
               IN IF suggestion # ""
                  THEN [res |-> [InitialResult(tc) EXCEPT
                                   !.Status = "rewritten", !.Confidence = Conf100,
                                   !.ExecutionAllowed = TRUE,
                                   !.PolicyAction = PolicyRewrite,
                                   !.SuggestedCorrection = Correction(tc, suggestion),
                                   !.Reason = "Did you mean '" \o suggestion \o "'?"],
                        cache |-> ev.cache]
                  ELSE [res |-> [rejected EXCEPT
                                   !.Reason = "Unknown tool name and no close match found"],
                        cache |-> ev.cache]
          ELSE [res |-> [rejected EXCEPT !.Reason = "Unknown tool name"],
                cache |-> ev.cache]
  ELSE LET err == ValidateParameters(schemas[tc.Name], tc.Parameters, order)
       IN IF err.failed
          THEN [res |-> [InitialResult(tc) EXCEPT
                           !.Status = "rejected", !.Confidence = Conf000,
                           !.ExecutionAllowed = FALSE, !.Reason = err.msg,
                           !.PolicyAction = PolicyReject],
                cache |-> cache]
          ELSE LET ev == EvaluatePolicy(reg, tc, cache)
               IN [res |-> AndPolicyOutcome(tc, ev.result), cache |-> ev.cache]

(***************************************************************************)
(* The state machine.  `last` records the operation that ran last, its     *)
(* argument and what it returned.                                          *)
(***************************************************************************)
NoCall == [ID |-> "", Name |-> "", Parameters |-> EmptyMap,
           Context |-> [UserRole |-> ""], Timestamp |-> ""]

Op(op, ok, tc, res, file, replaced) ==
  [op |-> op, ok |-> ok, tc |-> tc, res |-> res, file |-> file,
   replaced |-> replaced]

\* number of policies in the registry
RECURSIVE CountPolicies(_)
CountPolicies(reg) ==
  IF DOMAIN reg = {} THEN 0
  ELSE LET k == CHOOSE x \in DOMAIN reg : TRUE
       IN Len(reg[k]) + CountPolicies([x \in (DOMAIN reg) \ {k} |-> reg[x]])

\* the Guards created with New() and the goroutines that call them
Guards == {"A", "B"}
Goroutines == {"g1", "g2"}

\* a sync.RWMutex nobody holds (the zero value of Guard.mu, part_010:95)
Unlocked == [writer |-> FALSE, readers |-> 0]

\* requests per minute per IP (main.go:19)
rateLimit == 60

\* clock ticks in time.Minute: the clock of the model advances by minutes
TicksPerMinute == 1

\* the last tick of the clock
MaxTick == 2

\* r.RemoteAddr of the requests: one client IP, two connections
RemoteAddrs == {"10.0.0.1:1001", "10.0.0.1:1002"}

\* the client's second connection, which carries few requests
SecondConnection == "10.0.0.1:1002"

\* largest number of requests per window on the second connection
MaxSecondConnection == 2

\* the IP of a remote address "IP:port"
ClientIP(addr) == SubSeq(addr, 1, Len(addr) - 5)

\* a goroutine that is not evaluating a condition
NoEval ==
  [pc |-> "idle", condition |-> "", tc |-> NoCall, program |-> Nil,
   exists |-> FALSE, match |-> FALSE, err |-> FALSE]

\* a StandardAgent that has executed no tool call yet
NoExecution ==
  [pc |-> "idle", toolCall |-> Nil, role |-> "", result |-> Nil,
   executed |-> Nil, output |-> "", frames |-> 0]

\* a goroutine that is in no facade call
Idle ==
  [pc |-> "idle", guard |-> "", op |-> "", file |-> <<>>, opens |-> TRUE,
   tc |-> NoCall, ctxDone |-> FALSE, doneAtEval |-> FALSE,
   found |-> <<>>, seen |-> <<>>, res |-> Nil]

Init ==
  /\ toolSchemas = EmptyMap
  /\ policies = EmptyMap
  /\ exprCache = EmptyMap
  /\ last = Op("Init", TRUE, NoCall, Nil, <<>>, FALSE)
  /\ mu = [g \in Guards |-> Unlocked]
  /\ calls = [t \in Goroutines |-> Idle]
  /\ cacheMu = Unlocked
  /\ evals = [t \in Goroutines |-> NoEval]
  /\ rateLimitMap = EmptyMap
  /\ now = 0
  /\ passed = [ip \in {ClientIP(a) : a \in RemoteAddrs} |->
                 [i \in 1..TicksPerMinute |-> 0]]
  /\ agent = NoExecution

\* schema.RegisterToolSchema (part_009:216-218)
RegisterToolSchema(schema) ==
  /\ toolSchemas' = Put(toolSchemas, schema.Name, schema)
  /\ last' = Op("RegisterToolSchema", TRUE, NoCall, Nil, <<>>, FALSE)
  /\ UNCHANGED <<policies, exprCache>>
  /\ UNCHANGED guardVars

RECURSIVE RegisterAllSchemas(_, _)
RegisterAllSchemas(reg, ss) ==
  IF ss = <<>> THEN reg
  ELSE RegisterAllSchemas(Put(reg, Head(ss).Name, Head(ss)), Tail(ss))

\* schema.LoadSchemasFromYAML (part_009:287-303): the file opens and decodes
LoadSchemasFromYAML(file) ==
  /\ toolSchemas' = RegisterAllSchemas(toolSchemas, file)
  /\ last' = Op("LoadSchemasFromYAML", TRUE, NoCall, Nil, file, DOMAIN toolSchemas # {})
  /\ UNCHANGED <<policies, exprCache>>
  /\ UNCHANGED guardVars

\* the places at which a load can return an error: os.Open, Decode
LoadFailures == {"open", "decode"}

\* the schema registry when LoadSchemasFromYAML returns the error of os.Open
\* or of Decode: both returns precede the registering loop (part_009:288-298)
SchemasAtFailure(reg, stage) == reg

\* schema.LoadSchemasFromYAML: os.Open or the decoder returns an error
LoadSchemasFails ==
  /\ \E stage \in LoadFailures : toolSchemas' = SchemasAtFailure(toolSchemas, stage)
  /\ last' = Op("LoadSchemasFromYAML", FALSE, NoCall, Nil, <<>>, FALSE)
  /\ UNCHANGED <<policies, exprCache>>
  /\ UNCHANGED guardVars

\* policy.RegisterPolicy (engine.go:82-88)
RegisterPolicy(p) ==
  /\ CountPolicies(policies) < MaxPolicies
  /\ policies' = RegisterPolicyIn(policies, p)
  /\ last' = Op("RegisterPolicy", TRUE, NoCall, Nil, <<>>, FALSE)
  /\ UNCHANGED <<toolSchemas, exprCache>>
  /\ UNCHANGED guardVars

\* policy.LoadPoliciesFromYAML (engine.go:273-294): the file opens and decodes
LoadPoliciesFromYAML(file) ==
  /\ policies' = RegisterAll(ClearPolicies(policies), file)
  /\ last' = Op("LoadPoliciesFromYAML", TRUE, NoCall, Nil, file, DOMAIN policies # {})
  /\ UNCHANGED <<toolSchemas, exprCache>>
  /\ UNCHANGED guardVars

\* a load that clears the registry as soon as the file is open
PoliciesClearedBeforeDecode(reg, stage) ==
  IF stage = "decode" THEN ClearPolicies(reg) ELSE reg

\* the policy registry when LoadPoliciesFromYAML returns the error of
\* os.Open or of Decode: both returns precede "Clear existing policies"
\* (engine.go:274-288)
PoliciesAtFailure(reg, stage) == reg

\* policy.LoadPoliciesFromYAML: os.Open or the decoder returns an error
LoadPoliciesFails ==
  /\ \E stage \in LoadFailures : policies' = PoliciesAtFailure(policies, stage)
  /\ last' = Op("LoadPoliciesFromYAML", FALSE, NoCall, Nil, <<>>, FALSE)
  /\ UNCHANGED <<toolSchemas, exprCache>>
  /\ UNCHANGED guardVars

\* the orders in which ValidateParameters can visit the tool's parameters
ParameterOrders(name) ==
  IF name \in DOMAIN toolSchemas
  THEN Orders(DOMAIN toolSchemas[name].Parameters)
  ELSE {<<>>}

\* policy.EvaluatePolicy called on its own (engine.go:123-169)
EvaluatePolicyCall(tc) ==
  LET ev == EvaluatePolicy(policies, tc, exprCache)
  IN /\ exprCache' = ev.cache
     /\ last' = Op("EvaluatePolicy", TRUE, tc, ev.result, <<>>, FALSE)
     /\ policies' = PoliciesAfterGetAll(policies, tc.Name)
     /\ UNCHANGED toolSchemas
     /\ UNCHANGED guardVars

\* validation.ValidateToolCall (part_009:13-158)
ValidateToolCall(tc) ==
  \E known \in Orders(DOMAIN toolSchemas), order \in ParameterOrders(tc.Name) :
    LET v == ValidateToolCallOn(toolSchemas, policies, exprCache, tc, known, order)
        suggestion == FuzzyMatchToolName(tc.Name, known, FuzzyMaxDistance).name
    IN /\ exprCache' = v.cache
       /\ last' = Op("ValidateToolCall", TRUE, tc, v.res, <<>>, FALSE)
       \* EvaluatePolicy runs on the suggested name (part_009:30), on the
       \* call's own (part_009:88), or not at all
       /\ policies' =
            IF tc.Name \notin DOMAIN toolSchemas
            THEN IF suggestion # "" THEN PoliciesAfterGetAll(policies, suggestion)
                 ELSE policies
            ELSE IF ValidateParameters(toolSchemas[tc.Name], tc.Parameters, order).failed
                 THEN policies
                 ELSE PoliciesAfterGetAll(policies, tc.Name)
       /\ UNCHANGED toolSchemas
       /\ UNCHANGED guardVars

\* schema.ValidateAndPolicy (part_009:310-405)
ValidateAndPolicy(tc) ==
  \E known \in Orders(DOMAIN toolSchemas), order \in ParameterOrders(tc.Name) :
    LET v == ValidateAndPolicyOn(toolSchemas, policies, exprCache, tc, known, order)
    IN /\ exprCache' = v.cache
       /\ last' = Op("ValidateAndPolicy", TRUE, tc, v.res, <<>>, FALSE)
       \* EvaluatePolicy runs unless the parameters fail (part_009:327, 365)
       /\ policies' =
            IF /\ tc.Name \in DOMAIN toolSchemas
               /\ ValidateParameters(toolSchemas[tc.Name], tc.Parameters, order).failed
            THEN policies
            ELSE PoliciesAfterGetAll(policies, tc.Name)
       /\ UNCHANGED toolSchemas
       /\ UNCHANGED guardVars

Next ==
  \/ \E schema \in SchemaCatalogue : RegisterToolSchema(schema)
  \/ \E file \in SchemaFiles : LoadSchemasFromYAML(file)
  \/ LoadSchemasFails
  \/ \E p \in PolicyCatalogue : RegisterPolicy(p)
  \/ \E file \in PolicyFiles : LoadPoliciesFromYAML(file)
  \/ LoadPoliciesFails
  \/ \E tc \in ToolCalls : ValidateToolCall(tc)
  \/ \E tc \in ToolCalls : ValidateAndPolicy(tc)

Spec == Init /\ [][Next]_vars

\* the registries with the engine called on its own
NextEngine ==
  \/ \E p \in PolicyCatalogue : RegisterPolicy(p)
  \/ \E file \in PolicyFiles : LoadPoliciesFromYAML(file)
  \/ LoadPoliciesFails
  \/ \E tc \in ToolCalls : EvaluatePolicyCall(tc)

SpecEngine == Init /\ [][NextEngine]_vars

(***************************************************************************)
(* Long policy lists.  sort.Slice sorts up to maxInsertion elements by     *)
(* insertion and longer slices by partitioning, so the registry is also    *)
(* explored with one tool's list growing past maxInsertion.  The k-th      *)
(* policy registered carries the k-th tag as its Reason.                   *)
(***************************************************************************)
RegistrationTags ==
  <<"r01", "r02", "r03", "r04", "r05", "r06", "r07",
    "r08", "r09", "r10", "r11", "r12", "r13">>

\* the position at which the policy carrying this tag was registered
TagIndex(tag) == CHOOSE i \in 1..Len(RegistrationTags) : RegistrationTags[i] = tag

\* policy.RegisterPolicy (engine.go:82-88) of the next tagged weather policy
RegisterTagged(prio) ==
  LET n == Len(PoliciesOf(policies, "weather"))
  IN /\ n < Len(RegistrationTags)
     /\ policies' = RegisterPolicyIn(policies,
                      Policy("weather", PolicyAllow, "", RegistrationTags[n + 1], prio, ""))
     /\ last' = Op("RegisterPolicy", TRUE, NoCall, Nil, <<>>, FALSE)
     /\ UNCHANGED <<toolSchemas, exprCache>>
     /\ UNCHANGED guardVars

NextSort == \E prio \in {0, 1} : RegisterTagged(prio)

SpecSort == Init /\ [][NextSort]_vars

(***************************************************************************)
(* Vocabulary of the properties.                                           *)
(***************************************************************************)
Range(xs) == {xs[i] : i \in 1..Len(xs)}

\* the operation that ran last is one of the two validators
IsValidation == last.op \in {"ValidateToolCall", "ValidateAndPolicy"}

\* the policies the engine consults for a call (engine.go:103-110)
Applicable(tc) ==
  Range(PoliciesOf(policies, tc.Name)) \cup Range(PoliciesOf(policies, Wildcard))

\* the policy's condition cannot be compiled or run for the call (engine.go:141-146)
ConditionErrs(p, tc) ==
  /\ p.Condition # ""
  /\ \/ ~Compiles(p.Condition)
     \/ RunProgram(Compile(p.Condition), tc).err

\* the policy matches the call (engine.go:129-147)
ConditionHolds(p, tc) ==
  \/ p.Condition = ""
  \/ /\ Compiles(p.Condition)
     /\ ~RunProgram(Compile(p.Condition), tc).err
     /\ RunProgram(Compile(p.Condition), tc).value

Matching(tc) == {p \in Applicable(tc) : ConditionHolds(p, tc)}

\* what a policy result decides
Decision(r) == <<r.Action, r.Reason, r.Target>>

\* number of occurrences of x in xs
Count(xs, x) == Cardinality({i \in 1..Len(xs) : xs[i] = x})

\* the registered names closest to the requested one, within the fuzzy distance
Suggestions(tc) ==
  {s \in DOMAIN toolSchemas :
     /\ Distances[tc.Name, s] <= FuzzyMaxDistance
     /\ \A t \in DOMAIN toolSchemas : Distances[tc.Name, s] <= Distances[tc.Name, t]}

\* the messages ValidateParameters can fail with for the call
ParameterFailures(tc) ==
  {ValidateParameters(toolSchemas[tc.Name], tc.Parameters, o).msg :
     o \in {q \in Orders(DOMAIN toolSchemas[tc.Name].Parameters) :
              ValidateParameters(toolSchemas[tc.Name], tc.Parameters, q).failed}}

(***************************************************************************)
(* C1.  In every result either validator returns, execution is allowed     *)
(* exactly when the status is "approved" or "rewritten"; a "rejected"      *)
(* status never carries the permission.                                    *)
(***************************************************************************)
C1_AllowedIffApprovedOrRewritten ==
  IsValidation =>
    /\ last.res.Status \in {"approved", "rewritten", "rejected"}
    /\ last.res.ExecutionAllowed <=> last.res.Status \in {"approved", "rewritten"}

\* a validator has answered for a call decided by a RATE_LIMIT policy, a
\* type neither switch names
C1_Witness ==
  /\ last.op = "ValidateAndPolicy"
  /\ last.res.PolicyAction = PolicyRateLimit
  /\ last.res.ExecutionAllowed

C3_EqualPriorityKeepsRegistrationOrder ==
  \A t \in DOMAIN policies :
    \A i \in 1..Len(policies[t]), j \in 1..Len(policies[t]) :
      (i < j /\ policies[t][i].Priority = policies[t][j].Priority) =>
        TagIndex(policies[t][i].Reason) < TagIndex(policies[t][j].Reason)

(***************************************************************************)
(* C4.  A policy registered under "*" decides the engine's result only     *)
(* when no policy registered under the call's own tool name matches.       *)
(***************************************************************************)
C4_WildcardOnlyAfterSpecific ==
  ( /\ last.op = "EvaluatePolicy"
    /\ last.res.Matched
    /\ \E w \in Range(PoliciesOf(policies, Wildcard)) :
         last.res.PolicyID = w.ToolName \o ":" \o w.Type )
  => \A p \in Range(PoliciesOf(policies, last.tc.Name)) :
       ~ConditionHolds(p, last.tc)

(***************************************************************************)
(* C5.  A successful load leaves the registry holding exactly the file's   *)
(* policies, each tool's list sorted by descending priority, whatever was  *)
(* registered before; loading the same file again changes nothing.         *)
(***************************************************************************)
C5_LoadReplaces ==
  [][ (last'.op = "LoadPoliciesFromYAML" /\ last'.ok) =>
        /\ DOMAIN policies' = {p.ToolName : p \in Range(last'.file)}
        /\ \A t \in DOMAIN policies' :
             /\ \A p \in Range(policies'[t]) \cup Range(last'.file) :
                  Count(policies'[t], p)
                    = IF p.ToolName = t THEN Count(last'.file, p) ELSE 0
             /\ \A i \in 1..Len(policies'[t]), j \in 1..Len(policies'[t]) :
                  i < j => policies'[t][i].Priority >= policies'[t][j].Priority
        /\ (last.op = "LoadPoliciesFromYAML" /\ last.ok /\ last.file = last'.file)
             => policies' = policies ]_vars

\* a file of several policies has been loaded over a registry that held others
C5_Witness ==
  /\ last.op = "LoadPoliciesFromYAML"
  /\ last.ok
  /\ last.replaced
  /\ Len(last.file) >= 2
  /\ DOMAIN policies = {p.ToolName : p \in Range(last.file)}

(***************************************************************************)
(* C6.  When the requested name n is not registered, fuzzy matching        *)
(* suggests s and a REWRITE policy with target s is registered under n,    *)
(* the result is "rewritten" and allowed, names s in its suggested call    *)
(* and its modifications, and has confidence 0.95.                         *)
(***************************************************************************)
C6_TypoAutoCorrected ==
  ( /\ IsValidation
    /\ last.tc.Name \notin DOMAIN toolSchemas
    /\ Suggestions(last.tc) # {}
    /\ \E p \in Range(PoliciesOf(policies, last.tc.Name)) :
         p.Type = PolicyRewrite /\ p.Target \in Suggestions(last.tc) )
  => \E s \in Suggestions(last.tc) :
       /\ last.res.Status = "rewritten"
       /\ last.res.ExecutionAllowed
       /\ last.res.SuggestedCorrection = Correction(last.tc, s)
       /\ last.res.Modifications = [name |-> s]
       /\ last.res.Confidence = Conf095

(***************************************************************************)
(* C7.  When the condition of an applicable REJECT or CONTEXT_REJECT       *)
(* policy cannot be evaluated, the policy is skipped but the call is not   *)
(* allowed by default: some policy decides it.                             *)
(***************************************************************************)
C7_FailClosed ==
  ( /\ last.op = "EvaluatePolicy"
    /\ \E p \in Applicable(last.tc) :
         /\ p.Type \in {PolicyReject, PolicyContextReject}
         /\ ConditionErrs(p, last.tc) )
  => last.res.Matched

(***************************************************************************)
(* C8.  A call whose name is neither registered nor within the fuzzy       *)
(* distance of a registered name is rejected with confidence 1.0, reason   *)
(* "Unknown tool name" and no suggested correction, whatever policies are  *)
(* registered.                                                             *)
(***************************************************************************)
C8_UnknownToolRejected ==
  ( /\ IsValidation
    /\ last.tc.Name \notin DOMAIN toolSchemas
    /\ Suggestions(last.tc) = {} )
  => /\ last.res.Status = "rejected"
     /\ ~last.res.ExecutionAllowed
     /\ last.res.Confidence = Conf100
     /\ last.res.Reason = "Unknown tool name"
     /\ last.res.SuggestedCorrection = Nil

C10_ParameterFailureRejected ==
  ( /\ IsValidation
    /\ last.tc.Name \in DOMAIN toolSchemas
    /\ ParameterFailures(last.tc) # {} )
  => /\ last.res.Status = "rejected"
     /\ ~last.res.ExecutionAllowed
     /\ last.res.Confidence = Conf100
     /\ \E detail \in ParameterFailures(last.tc) :
          last.res.Reason = "Parameter validation failed: " \o detail

(***************************************************************************)
(* Parameter validation on its own: schemas that declare two parameters    *)
(* and constrain strings.  A schema file lists a tool's parameters in an   *)
(* order (DeclaredOrder); the decoded ToolSchema holds them in a Go map.   *)
(***************************************************************************)
\* a string value with its text
TextValue(s) == [type |-> "string", len |-> Len(s), num |-> 0, text |-> s]

\* ParameterSchema with all its fields (part_009:194-200)
ConstrainedParameter(type, required, maxLength, enum, pattern) ==
  [Type |-> type, Required |-> required, MaxLength |-> maxLength,
   Enum |-> enum, Pattern |-> pattern]

ConstrainedSchemas ==
  { ToolSchema("forecast",
               [location |-> ConstrainedParameter("string", TRUE, 5, {}, ""),
                units |-> ConstrainedParameter("string", FALSE, 0, {"c", "f"}, "")]),
    ToolSchema("convert",
               [location |-> ConstrainedParameter("number", TRUE, 0, {}, ""),
                units |-> ConstrainedParameter("string", TRUE, 1, {}, "")]),
    ToolSchema("weather",
               [location |-> ConstrainedParameter("string", TRUE, 0, {}, "")]) }

\* the order in which the schema file lists each tool's parameters
DeclaredOrder ==
  [forecast |-> <<"location", "units">>,
   convert |-> <<"location", "units">>,
   weather |-> <<"location">>]

LocationValues == {TextValue("Paris"), TextValue("London"), IntValue(7)}
UnitsValues == {TextValue("c"), TextValue("k"), IntValue(1)}

ConstrainedParameterMaps ==
  {EmptyMap}
    \cup {[location |-> l] : l \in LocationValues}
    \cup {[units |-> u] : u \in UnitsValues}
    \cup {[location |-> l, units |-> u] : l \in LocationValues, u \in UnitsValues}

\* schema.RegisterToolSchema (part_009:216-218) of a constrained schema
RegisterConstrained(schema) ==
  /\ toolSchemas' = Put(toolSchemas, schema.Name, schema)
  /\ last' = Op("RegisterToolSchema", TRUE, NoCall, Nil, <<>>, FALSE)
  /\ UNCHANGED <<policies, exprCache>>
  /\ UNCHANGED guardVars

\* schema.GetToolSchema then schema.ValidateParameters (part_009:225-280)
ValidateParametersCall(name, params) ==
  /\ name \in DOMAIN toolSchemas
  /\ \E order \in Orders(DOMAIN toolSchemas[name].Parameters) :
       LET err == ValidateParameters(toolSchemas[name], params, order)
       IN last' = Op("ValidateParameters", ~err.failed,
                     [NoCall EXCEPT !.Name = name, !.Parameters = params],
                     err, <<>>, FALSE)
  /\ UNCHANGED <<toolSchemas, policies, exprCache>>
  /\ UNCHANGED guardVars

NextParams ==
  \/ \E schema \in ConstrainedSchemas : RegisterConstrained(schema)
  \/ \E schema \in ConstrainedSchemas, params \in ConstrainedParameterMaps :
       ValidateParametersCall(schema.Name, params)

SpecParams == Init /\ [][NextParams]_vars

(***************************************************************************)
(* C11.  When parameter validation fails, the failure returned is that of  *)
(* the first failing parameter in the schema's declaration order (so the   *)
(* same inputs always give the same failure description).                  *)
(***************************************************************************)
C11_FirstDeclaredFailure ==
  (last.op = "ValidateParameters" /\ ~last.ok) =>
    last.res = ValidateParameters(toolSchemas[last.tc.Name], last.tc.Parameters,
                                  DeclaredOrder[last.tc.Name])

(***************************************************************************)
(* Misspelled names: the validator called with names that are close to     *)
(* registered ones, one of them equally close to two.                      *)
(***************************************************************************)
NearMissCalls ==
  [ID : {"call_1"}, Name : NearMissNames \cup {"wheather"},
   Parameters : ParameterMaps, Context : Contexts, Timestamp : {"t0"}]

NextFuzzy ==
  \/ \E schema \in SchemaCatalogue : RegisterToolSchema(schema)
  \/ \E p \in PolicyCatalogue : RegisterPolicy(p)
  \/ \E tc \in NearMissCalls : ValidateToolCall(tc)

SpecFuzzy == Init /\ [][NextFuzzy]_vars

(***************************************************************************)
(* C12.  Validating the same request again while the registries are        *)
(* unchanged returns an identical result, in particular the same suggested *)
(* name when two registered names are equally close.                       *)
(***************************************************************************)
C12_SameRequestSameResult ==
  [][ ( /\ last.op = "ValidateToolCall"
        /\ last'.op = "ValidateToolCall"
        /\ last'.tc = last.tc
        /\ toolSchemas' = toolSchemas
        /\ policies' = policies )
      => last'.res = last.res ]_vars

(***************************************************************************)
(* package hallucinationguard: the facade (part_010:94-244).  A goroutine  *)
(* runs one facade call at a time, step by step; every Guard has its own   *)
(* mutex, and all Guards work on the package-level registries.             *)
(***************************************************************************)
\* g.mu.Lock() can proceed ignoring the readers
CanLockIgnoringReaders(m) == ~m.writer

\* g.mu.Lock() can proceed (part_010:152, 166)
CanLock(m) == ~m.writer /\ m.readers = 0

\* g.mu.RLock() can proceed (part_010:180)
CanRLock(m) == ~m.writer

\* the requests made through the facade
GuardCalls ==
  {tc \in ToolCalls :
     /\ tc.Name \in {"weather", "wheather"}
     /\ tc.Context.UserRole = "admin"}

\* the conversion of the internal result to the public one (part_010:213-243)
GuardResult(result) ==
  [ExecutionAllowed |-> result.ExecutionAllowed,
   Error |-> result.Reason,
   PolicyAction |-> result.PolicyAction,
   ToolCallID |-> result.ToolCallID,
   Status |-> result.Status,
   Confidence |-> result.Confidence,
   SuggestedCorrection |->
     IF result.SuggestedCorrection = Nil THEN Nil
     ELSE [Name |-> result.SuggestedCorrection.Name,
           Parameters |-> result.SuggestedCorrection.Parameters,
           Context |-> result.SuggestedCorrection.Context]]

\* Guard.LoadPoliciesFromFile is called (part_010:165)
BeginLoadPolicies(t, g, file, opens) ==
  /\ calls[t].pc = "idle"
  /\ calls' = [calls EXCEPT ![t] = [Idle EXCEPT !.pc = "lock", !.guard = g,
                                                !.op = "LoadPolicies",
                                                !.file = file, !.opens = opens]]
  /\ UNCHANGED <<toolSchemas, policies, exprCache, last, mu>>
  /\ UNCHANGED cacheVars
  /\ UNCHANGED <<serverVars, agent>>

\* Guard.LoadSchemasFromFile is called (part_010:151)
BeginLoadSchemas(t, g, file, opens) ==
  /\ calls[t].pc = "idle"
  /\ calls' = [calls EXCEPT ![t] = [Idle EXCEPT !.pc = "lock", !.guard = g,
                                                !.op = "LoadSchemas",
                                                !.file = file, !.opens = opens]]
  /\ UNCHANGED <<toolSchemas, policies, exprCache, last, mu>>
  /\ UNCHANGED cacheVars
  /\ UNCHANGED <<serverVars, agent>>

\* Guard.ValidateToolCall is called with a context that is done or not (part_010:179)
BeginValidate(t, g, tc, done) ==
  /\ calls[t].pc = "idle"
  /\ calls' = [calls EXCEPT ![t] = [Idle EXCEPT !.pc = "rlock", !.guard = g,
                                                !.op = "Validate", !.tc = tc,
                                                !.ctxDone = done]]
  /\ UNCHANGED <<toolSchemas, policies, exprCache, last, mu>>
  /\ UNCHANGED cacheVars
  /\ UNCHANGED <<serverVars, agent>>

\* the caller's context is cancelled while ValidateToolCall runs
Cancel(t) ==
  /\ calls[t].op = "Validate"
  /\ calls[t].pc \in {"rlock", "lookup", "evaluate"}
  /\ ~calls[t].ctxDone
  /\ calls' = [calls EXCEPT ![t].ctxDone = TRUE]
  /\ UNCHANGED <<toolSchemas, policies, exprCache, last, mu>>
  /\ UNCHANGED cacheVars
  /\ UNCHANGED <<serverVars, agent>>

\* g.mu.Lock() (part_010:152, 166)
Lock(t) ==
  /\ calls[t].pc = "lock"
  /\ CanLock(mu[calls[t].guard])
  /\ mu' = [mu EXCEPT ![calls[t].guard].writer = TRUE]
  /\ calls' = [calls EXCEPT ![t].pc = "open"]
  /\ UNCHANGED <<toolSchemas, policies, exprCache, last>>
  /\ UNCHANGED cacheVars
  /\ UNCHANGED <<serverVars, agent>>

\* os.Open or the decoder fails: the load returns its error (engine.go:274-285)
OpenFails(t) ==
  /\ calls[t].pc = "open"
  /\ ~calls[t].opens
  /\ calls' = [calls EXCEPT ![t].pc = "unlock"]
  /\ UNCHANGED <<toolSchemas, policies, exprCache, last, mu>>
  /\ UNCHANGED cacheVars
  /\ UNCHANGED <<serverVars, agent>>

\* LoadPoliciesFromYAML clears the registry (engine.go:287-288)
ClearStep(t) ==
  /\ calls[t].pc = "open"
  /\ calls[t].opens
  /\ calls[t].op = "LoadPolicies"
  /\ policies' = ClearPolicies(policies)
  /\ calls' = [calls EXCEPT ![t].pc = IF calls[t].file = <<>> THEN "unlock"
                                      ELSE "register"]
  /\ UNCHANGED <<toolSchemas, exprCache, last, mu>>
  /\ UNCHANGED cacheVars
  /\ UNCHANGED <<serverVars, agent>>

\* LoadSchemasFromYAML has decoded the file (part_009:293-298)
SchemasDecoded(t) ==
  /\ calls[t].pc = "open"
  /\ calls[t].opens
  /\ calls[t].op = "LoadSchemas"
  /\ calls' = [calls EXCEPT ![t].pc = IF calls[t].file = <<>> THEN "unlock"
                                      ELSE "register"]
  /\ UNCHANGED <<toolSchemas, policies, exprCache, last, mu>>
  /\ UNCHANGED cacheVars
  /\ UNCHANGED <<serverVars, agent>>

\* one turn of the loop that registers the file's entries
\* (engine.go:290-292, part_009:299-301)
RegisterStep(t) ==
  /\ calls[t].pc = "register"
  /\ IF calls[t].op = "LoadPolicies"
     THEN /\ policies' = RegisterPolicyIn(policies, Head(calls[t].file))
          /\ UNCHANGED toolSchemas
     ELSE /\ toolSchemas' = Put(toolSchemas, Head(calls[t].file).Name,
                                Head(calls[t].file))
          /\ UNCHANGED policies
  /\ calls' = [calls EXCEPT ![t].file = Tail(calls[t].file),
                            ![t].pc = IF Tail(calls[t].file) = <<>> THEN "unlock"
                                      ELSE "register"]
  /\ UNCHANGED <<exprCache, last, mu>>
  /\ UNCHANGED cacheVars
  /\ UNCHANGED <<serverVars, agent>>

\* the deferred g.mu.Unlock() and the return (part_010:153, 167)
Unlock(t) ==
  /\ calls[t].pc = "unlock"
  /\ mu' = [mu EXCEPT ![calls[t].guard].writer = FALSE]
  /\ calls' = [calls EXCEPT ![t] = Idle]
  /\ UNCHANGED <<toolSchemas, policies, exprCache, last>>
  /\ UNCHANGED cacheVars
  /\ UNCHANGED <<serverVars, agent>>

\* g.mu.RLock() (part_010:180)
RLock(t) ==
  /\ calls[t].pc = "rlock"
  /\ CanRLock(mu[calls[t].guard])
  /\ mu' = [mu EXCEPT ![calls[t].guard].readers = @ + 1]
  /\ calls' = [calls EXCEPT ![t].pc = "lookup"]
  /\ UNCHANGED <<toolSchemas, policies, exprCache, last>>
  /\ UNCHANGED cacheVars
  /\ UNCHANGED <<serverVars, agent>>

\* schema.ValidateAndPolicy: GetToolSchema(tc.Name) (part_009:319)
Lookup(t) ==
  /\ calls[t].pc = "lookup"
  /\ calls' = [calls EXCEPT
                 ![t].found = IF calls[t].tc.Name \in DOMAIN toolSchemas
                              THEN <<toolSchemas[calls[t].tc.Name]>> ELSE <<>>,
                 ![t].pc = "evaluate"]
  /\ UNCHANGED <<toolSchemas, policies, exprCache, last, mu>>
  /\ UNCHANGED cacheVars
  /\ UNCHANGED <<serverVars, agent>>

\* the registry as the rest of ValidateAndPolicy sees it after the lookup
SchemasAfterLookup(t) ==
  IF calls[t].found # <<>>
  THEN Put(toolSchemas, calls[t].tc.Name, calls[t].found[1])
  ELSE [x \in (DOMAIN toolSchemas) \ {calls[t].tc.Name} |-> toolSchemas[x]]

\* schema.ValidateAndPolicy after the lookup, and the conversion of its
\* result (part_009:320-405, part_010:210-243); no step reads ctx
Evaluate(t) ==
  /\ calls[t].pc = "evaluate"
  /\ \E known \in Orders(DOMAIN toolSchemas),
        order \in (IF calls[t].found # <<>>
                   THEN Orders(DOMAIN calls[t].found[1].Parameters)
                   ELSE {<<>>}) :
       LET v == ValidateAndPolicyOn(SchemasAfterLookup(t), policies, exprCache,
                                    calls[t].tc, known, order)
       IN /\ exprCache' = v.cache
          /\ calls' = [calls EXCEPT
                         ![t].seen = GetAllPolicies(policies, calls[t].tc.Name),
                         ![t].res = GuardResult(v.res),
                         ![t].doneAtEval = calls[t].ctxDone,
                         ![t].pc = "runlock"]
  /\ UNCHANGED <<toolSchemas, policies, last, mu>>
  /\ UNCHANGED cacheVars
  /\ UNCHANGED <<serverVars, agent>>

\* the deferred g.mu.RUnlock() and the return of the result (part_010:181, 243)
RUnlock(t) ==
  /\ calls[t].pc = "runlock"
  /\ mu' = [mu EXCEPT ![calls[t].guard].readers = @ - 1]
  /\ calls' = [calls EXCEPT ![t] = Idle]
  /\ last' = Op("Guard.ValidateToolCall", TRUE, calls[t].tc, calls[t].res, <<>>, FALSE)
  /\ UNCHANGED <<toolSchemas, policies, exprCache>>
  /\ UNCHANGED cacheVars
  /\ UNCHANGED <<serverVars, agent>>

\* the steps a call takes once it has begun
Step(t) ==
  \/ Cancel(t)
  \/ Lock(t)
  \/ OpenFails(t)
  \/ ClearStep(t)
  \/ SchemasDecoded(t)
  \/ RegisterStep(t)
  \/ Unlock(t)
  \/ RLock(t)
  \/ Lookup(t)
  \/ Evaluate(t)
  \/ RUnlock(t)

\* one Guard used from every goroutine
NextGuard ==
  \/ \E t \in Goroutines, file \in PolicyFiles, opens \in BOOLEAN :
       BeginLoadPolicies(t, "A", file, opens)
  \/ \E t \in Goroutines, file \in SchemaFiles, opens \in BOOLEAN :
       BeginLoadSchemas(t, "A", file, opens)
  \/ \E t \in Goroutines, tc \in GuardCalls, done \in BOOLEAN :
       BeginValidate(t, "A", tc, done)
  \/ \E t \in Goroutines : Step(t)

SpecGuard == Init /\ [][NextGuard]_vars

\* the goroutine is inside a load, holding its Guard's mutex for writing
InLoad(t) ==
  /\ calls[t].op \in {"LoadPolicies", "LoadSchemas"}
  /\ calls[t].pc \in {"open", "register", "unlock"}

\* the goroutine is inside a validation, holding its Guard's mutex for reading
InValidation(t) ==
  /\ calls[t].op = "Validate"
  /\ calls[t].pc \in {"lookup", "evaluate", "runlock"}

\* the policy registries that a completed load (or none) leaves
LoadedRegistries == {EmptyMap} \cup {RegisterAll(EmptyMap, file) : file \in PolicyFiles}

(***************************************************************************)
(* C13.  With one Guard, a load excludes every other load and every        *)
(* validation, and the policies a validation has read are those of a       *)
(* registry as a completed load left it, never of a cleared or partly      *)
(* registered one; validations may run together.                           *)
(***************************************************************************)
C13_LoadsExcludeValidations ==
  /\ \A t \in Goroutines, u \in Goroutines :
       (t # u /\ calls[t].guard = calls[u].guard /\ InLoad(t)) =>
         (~InLoad(u) /\ ~InValidation(u))
  /\ \A t \in Goroutines :
       (calls[t].op = "Validate" /\ calls[t].pc = "runlock") =>
         \E reg \in LoadedRegistries :
           calls[t].seen = GetAllPolicies(reg, calls[t].tc.Name)

\* a validation has read a loaded registry and still holds the mutex while a
\* load of the same Guard waits for it
C13_Witness ==
  \E t \in Goroutines, u \in Goroutines :
    /\ t # u
    /\ calls[t].op = "Validate" /\ calls[t].pc = "runlock"
    /\ calls[t].seen # <<>>
    /\ calls[u].op = "LoadPolicies" /\ calls[u].pc = "lock"
    /\ calls[u].guard = calls[t].guard

(***************************************************************************)
(* Two Guards: goroutine g1 loads through Guard A while goroutine g2       *)
(* validates through Guard B.                                              *)
(***************************************************************************)
NextTwoGuards ==
  \/ \E file \in PolicyFiles, opens \in BOOLEAN :
       BeginLoadPolicies("g1", "A", file, opens)
  \/ \E file \in SchemaFiles, opens \in BOOLEAN :
       BeginLoadSchemas("g1", "A", file, opens)
  \/ \E tc \in GuardCalls, done \in BOOLEAN :
       BeginValidate("g2", "B", tc, done)
  \/ \E t \in Goroutines : Step(t)

SpecTwoGuards == Init /\ [][NextTwoGuards]_vars

\* the results Guard.ValidateToolCall can return for a request on given registries
FacadeResults(schemas, reg, tc) ==
  {GuardResult(ValidateAndPolicyOn(schemas, reg, EmptyMap, tc, known, order).res) :
     known \in Orders(DOMAIN schemas),
     order \in (IF tc.Name \in DOMAIN schemas
                THEN Orders(DOMAIN schemas[tc.Name].Parameters) ELSE {<<>>})}

(***************************************************************************)
(* C14.  A Guard consults registries of its own: no step of a load made    *)
(* through Guard A changes what ValidateToolCall through Guard B returns   *)
(* for any request.                                                        *)
(***************************************************************************)
C14_LoadThroughALeavesBUnchanged ==
  [][ (\E t \in Goroutines :
         /\ calls[t].guard = "A"
         /\ InLoad(t)
         /\ calls'[t] # calls[t])
      => \A tc \in GuardCalls :
           FacadeResults(toolSchemas', policies', tc)
             = FacadeResults(toolSchemas, policies, tc) ]_vars

(***************************************************************************)
(* C15.  A ValidateToolCall whose cancellation signal was raised before    *)
(* the policies were evaluated aborts with a failure: it does not return   *)
(* an approved, rejected or rewritten decision.                            *)
(***************************************************************************)
C15_CancelledCallAborts ==
  \A t \in Goroutines :
    (calls[t].op = "Validate" /\ calls[t].pc = "runlock" /\ calls[t].doneAtEval)
      => calls[t].res.Status \notin {"approved", "rejected", "rewritten"}

\* the fields of a public result that the facade and the Validator are compared on
Decided(r) ==
  [Status |-> r.Status, ExecutionAllowed |-> r.ExecutionAllowed,
   Confidence |-> r.Confidence, Reason |-> r.Error,
   PolicyAction |-> r.PolicyAction,
   Suggested |-> IF r.SuggestedCorrection = Nil THEN ""
                 ELSE r.SuggestedCorrection.Name]

(***************************************************************************)
(* C16.  What Guard.ValidateToolCall returns agrees with a result of       *)
(* validation.ValidateToolCall for the same request and registries in      *)
(* status, permission, confidence, reason, policy action and suggested     *)
(* name.                                                                   *)
(***************************************************************************)
C16_FacadeRunsValidator ==
  \A t \in Goroutines :
    (calls[t].op = "Validate" /\ calls[t].pc = "runlock") =>
      \E known \in Orders(DOMAIN toolSchemas),
         order \in ParameterOrders(calls[t].tc.Name) :
        Decided(calls[t].res)
          = Decided(GuardResult(ValidateToolCallOn(toolSchemas, policies, exprCache,
                                                   calls[t].tc, known, order).res))

(***************************************************************************)
(* Rate limits above rejections: a RATE_LIMIT policy registered together   *)
(* with rejecting policies of lower priority.                              *)
(***************************************************************************)
AdvisoryPolicies ==
  { Policy("weather", PolicyRateLimit, "", "Rate limited", 1, ""),
    Policy("weather", PolicyReject, "", "Blocked", 0, ""),
    Policy(Wildcard, PolicyContextReject, condAdmin, "Admins are refused", 0, ""),
    WeatherAllow }

NextAdvisory ==
  \/ \E schema \in SchemaCatalogue : RegisterToolSchema(schema)
  \/ \E p \in AdvisoryPolicies : RegisterPolicy(p)
  \/ \E tc \in ToolCalls : ValidateToolCall(tc)
  \/ \E tc \in ToolCalls : ValidateAndPolicy(tc)

SpecAdvisory == Init /\ [][NextAdvisory]_vars

\* the call passed the schema checks, so its result is the policies' doing
ReachedPolicies ==
  /\ IsValidation
  /\ last.tc.Name \in DOMAIN toolSchemas
  /\ ParameterFailures(last.tc) = {}

(***************************************************************************)
(* C17.  A matching RATE_LIMIT policy does not end the evaluation: when a  *)
(* REJECT or CONTEXT_REJECT policy of lower priority matches the call too  *)
(* (and no policy of another type does), the result is rejected; when      *)
(* RATE_LIMIT policies are all that match, it is approved and allowed.     *)
(***************************************************************************)
C17_RateLimitIsNotTerminal ==
  LET M == Matching(last.tc)
      limits == {p \in M : p.Type = PolicyRateLimit}
      rejects == {p \in M : p.Type \in {PolicyReject, PolicyContextReject}}
  IN (ReachedPolicies /\ limits # {} /\ M = limits \cup rejects) =>
       IF \E r \in limits, q \in rejects : q.Priority < r.Priority
       THEN /\ last.res.Status = "rejected"
            /\ ~last.res.ExecutionAllowed
       ELSE rejects = {} =>
              /\ last.res.Status = "approved"
              /\ last.res.ExecutionAllowed

(***************************************************************************)
(* package rest: ValidateHandler (handler.go:79-117), the HTTP entry to    *)
(* validation.ValidateToolCall.  A request carries a list of tool calls    *)
(* and one context for all of them.                                        *)
(***************************************************************************)
\* the tool calls a request body can list; the handler overwrites their context
RestCalls ==
  [ID : {"call_1"}, Name : {"weather", "wheather"}, Parameters : ParameterMaps,
   Context : {[UserRole |-> ""]}, Timestamp : {"t0"}]

\* rest.ValidationRequest
ValidationRequests ==
  [ToolCalls : {<<>>} \cup {<<a>> : a \in RestCalls}
                 \cup {<<a, b>> : a \in RestCalls, b \in RestCalls},
   Context : Contexts]

\* the policies registered before the requests arrive
RewritePolicies ==
  { Policy("weather", PolicyRewrite, "", "Tool renamed", 1, "tether"),
    Policy("weather", PolicyRewrite, condAdmin, "", 0, ""),
    WeatherAllow, TypoRewrite }

\* the loop over req.ToolCalls (handler.go:94-108): what it can append to
\* results, and the expression cache it leaves
RECURSIVE handlerLoop(_, _, _)
handlerLoop(tcs, ctx, cache) ==
  IF tcs = <<>> THEN {[results |-> <<>>, cache |-> cache]}
  ELSE UNION
    { { [results |->
           <<[ValidateToolCallOn(toolSchemas, policies, cache,
                                 [Head(tcs) EXCEPT !.Context = ctx],
                                 known, order).res
                EXCEPT !.Modifications = Nil]>> \o rest.results,
         cache |-> rest.cache] :
        rest \in handlerLoop(Tail(tcs), ctx,
                             ValidateToolCallOn(toolSchemas, policies, cache,
                                                [Head(tcs) EXCEPT !.Context = ctx],
                                                known, order).cache) } :
      known \in Orders(DOMAIN toolSchemas),
      order \in ParameterOrders(Head(tcs).Name) }

\* rest.ValidateHandler on a body that decodes and lists a tool call
ValidateHandler(req) ==
  /\ Len(req.ToolCalls) > 0
  /\ \E out \in handlerLoop(req.ToolCalls, req.Context, exprCache) :
       /\ exprCache' = out.cache
       /\ last' = Op("ValidateHandler", TRUE, req, out.results, <<>>, FALSE)
  /\ UNCHANGED <<toolSchemas, policies>>
  /\ UNCHANGED guardVars

\* rest.ValidateHandler answering 400: the body does not decode, or lists no
\* tool call (handler.go:83-92)
ValidateHandlerBadRequest ==
  /\ last' = Op("ValidateHandler", FALSE, NoCall, Nil, <<>>, FALSE)
  /\ UNCHANGED <<toolSchemas, policies, exprCache>>
  /\ UNCHANGED guardVars

NextRest ==
  \/ \E schema \in SchemaCatalogue : RegisterToolSchema(schema)
  \/ \E p \in RewritePolicies : RegisterPolicy(p)
  \/ \E tc \in ToolCalls : ValidateToolCall(tc)
  \/ \E req \in ValidationRequests : ValidateHandler(req)
  \/ ValidateHandlerBadRequest

SpecRest == Init /\ [][NextRest]_vars

\* the requests just answered, each with the result returned for it
Delivered ==
  IF last.op = "ValidateToolCall" THEN {<<last.tc, last.res>>}
  ELSE IF last.op = "ValidateHandler" /\ last.ok
    THEN {<<[last.tc.ToolCalls[i] EXCEPT !.Context = last.tc.Context], last.res[i]>> :
            i \in 1..Len(last.res)}
  ELSE {}

(***************************************************************************)
(* C18.  For a registered tool with valid parameters whose deciding policy *)
(* is REWRITE, the result is rewritten and allowed with confidence 1.0,    *)
(* its suggested call bears the policy's target (the request's own name    *)
(* when the target is empty) with the request's parameters and context,    *)
(* and its modifications are {name: that name}.                            *)
(***************************************************************************)
C18_PolicyRewrite ==
  \A d \in Delivered :
    ( /\ d[1].Name \in DOMAIN toolSchemas
      /\ ParameterFailures(d[1]) = {}
      /\ EvaluatePolicy(policies, d[1], exprCache).result.Action = PolicyRewrite )
    => LET target == EvaluatePolicy(policies, d[1], exprCache).result.Target
           name == IF target = "" THEN d[1].Name ELSE target
       IN /\ d[2].Status = "rewritten"
          /\ d[2].ExecutionAllowed
          /\ d[2].Confidence = Conf100
          /\ d[2].SuggestedCorrection # Nil
          /\ d[2].SuggestedCorrection.Name = name
          /\ d[2].SuggestedCorrection.Parameters = d[1].Parameters
          /\ d[2].SuggestedCorrection.Context = d[1].Context
          /\ d[2].Modifications = [name |-> name]

(***************************************************************************)
(* C19.  For a declared parameter of type string that the call supplies,   *)
(* ValidateParameters accepts the call (its other parameters being in      *)
(* order) exactly when the value is textual, no longer than a positive     *)
(* max_length, and a member of the enum when one is declared.              *)
(***************************************************************************)
C19_StringConstraintsEnforced ==
  last.op = "ValidateParameters" =>
    LET schema == toolSchemas[last.tc.Name]
        params == last.tc.Parameters
    IN \A p \in DOMAIN schema.Parameters :
         ( /\ schema.Parameters[p].Type = "string"
           /\ p \in DOMAIN params
           /\ \A q \in (DOMAIN schema.Parameters) \ {p} :
                ~CheckParameter(q, schema.Parameters[q], params).failed )
         => ( last.ok <=>
                /\ params[p].type = "string"
                /\ \/ schema.Parameters[p].MaxLength = 0
                   \/ params[p].len <= schema.Parameters[p].MaxLength
                /\ \/ schema.Parameters[p].Enum = {}
                   \/ params[p].text \in schema.Parameters[p].Enum )

\* policy.ApplyPolicy (engine.go:263-266)
ApplyPolicy(reg, tc, cache) == EvaluatePolicy(reg, tc, cache).result.Action

\* the places in the priority-ordered list whose policy matches the call
MatchingPlaces(tc) ==
  {i \in 1..Len(GetAllPolicies(policies, tc.Name)) :
     ConditionHolds(GetAllPolicies(policies, tc.Name)[i], tc)}

(***************************************************************************)
(* C20.  EvaluatePolicy returns the decision of the first policy in the    *)
(* priority-ordered list whose condition is empty or true: its type as     *)
(* action, its target, its reason or a non-empty synthetic one when it has *)
(* none, matched, and the id "<tool_name>:<type>"; when no policy matches  *)
(* it returns ALLOW, not matched, with the id "default:allow".             *)
(* ApplyPolicy returns the action of that result.                          *)
(***************************************************************************)
C20_FirstMatchDecides ==
  last.op = "EvaluatePolicy" =>
    /\ ApplyPolicy(policies, last.tc, exprCache) = last.res.Action
    /\ IF MatchingPlaces(last.tc) = {}
       THEN /\ last.res.Action = PolicyAllow
            /\ ~last.res.Matched
            /\ last.res.PolicyID = "default:allow"
       ELSE LET first == CHOOSE i \in MatchingPlaces(last.tc) :
                           \A j \in MatchingPlaces(last.tc) : i <= j
                policy == GetAllPolicies(policies, last.tc.Name)[first]
            IN /\ last.res.Action = policy.Type
               /\ last.res.Target = policy.Target
               /\ last.res.Matched
               /\ last.res.PolicyID = policy.ToolName \o ":" \o policy.Type
               /\ IF policy.Reason # "" THEN last.res.Reason = policy.Reason
                  ELSE last.res.Reason # ""

(***************************************************************************)
(* The matcher called on its own: package fuzzy's two exported functions   *)
(* applied to short strings, lists of known names and bounds.              *)
(***************************************************************************)
\* the lists of known names: up to two distinct names in either order
KnownLists ==
  UNION {Orders(S) : S \in {T \in SUBSET FuzzyStrings : Cardinality(T) <= 2}}

\* the values of maxDistance
MatchBounds == {-1, 0, 1, FuzzyMaxDistance}

\* fuzzy.LevenshteinDistance (validator.go:91-124)
LevenshteinDistanceCall(a, b) ==
  /\ last' = Op("LevenshteinDistance", TRUE, NoCall,
                [a |-> a, b |-> b, dist |-> LevenshteinDistance(a, b)],
                <<>>, FALSE)
  /\ UNCHANGED <<toolSchemas, policies, exprCache>>
  /\ UNCHANGED guardVars

\* fuzzy.FuzzyMatchToolName (validator.go:137-151)
FuzzyMatchToolNameCall(input, known, maxDistance) ==
  /\ last' = Op("FuzzyMatchToolName", TRUE, NoCall,
                [input |-> input, known |-> known, maxDistance |-> maxDistance,
                 found |-> FuzzyMatchToolName(input, known, maxDistance)],
                <<>>, FALSE)
  /\ UNCHANGED <<toolSchemas, policies, exprCache>>
  /\ UNCHANGED guardVars

NextMatcher ==
  \/ \E a \in FuzzyStrings, b \in FuzzyStrings : LevenshteinDistanceCall(a, b)
  \/ \E input \in FuzzyStrings, known \in KnownLists, d \in MatchBounds :
       FuzzyMatchToolNameCall(input, known, d)

SpecMatcher == Init /\ [][NextMatcher]_vars

\* the least number of single-character insertions, deletions and
\* substitutions that turn a into b
RECURSIVE EditDistance(_, _)
EditDistance(a, b) ==
  IF a = "" THEN Len(b)
  ELSE IF b = "" THEN Len(a)
  ELSE IF Head(a) = Head(b) THEN EditDistance(Tail(a), Tail(b))
  ELSE 1 + min(EditDistance(Tail(a), b), EditDistance(a, Tail(b)),
               EditDistance(Tail(a), Tail(b)))

(***************************************************************************)
(* C21.  FuzzyMatchToolName returns the first name of the list that        *)
(* attains the least edit distance to the input, with that distance, when  *)
(* the least distance is within the bound, and ("", -1) exactly when no    *)
(* known name is within the bound.  LevenshteinDistance is the edit        *)
(* distance, is symmetric and is 0 exactly for equal strings.              *)
(***************************************************************************)
C21_FuzzyMatcherContract ==
  /\ last.op = "LevenshteinDistance" =>
       /\ last.res.dist = EditDistance(last.res.a, last.res.b)
       /\ last.res.dist = LevenshteinDistance(last.res.b, last.res.a)
       /\ last.res.dist = 0 <=> last.res.a = last.res.b
  /\ last.op = "FuzzyMatchToolName" =>
       LET input == last.res.input
           known == last.res.known
           d == last.res.maxDistance
           within == {i \in 1..Len(known) : EditDistance(input, known[i]) <= d}
       IN IF within = {}
          THEN last.res.found = [name |-> "", dist |-> -1]
          ELSE /\ last.res.found # [name |-> "", dist |-> -1]
               /\ last.res.found.dist <= d
               /\ \E i \in within :
                    /\ known[i] = last.res.found.name
                    /\ EditDistance(input, known[i]) = last.res.found.dist
                    /\ \A j \in 1..Len(known) :
                         /\ EditDistance(input, known[j]) >= last.res.found.dist
                         /\ j < i => EditDistance(input, known[j]) > last.res.found.dist

\* the matcher has chosen between two known names equally close to the
\* input, both exactly at the bound
C21_Witness ==
  /\ last.op = "FuzzyMatchToolName"
  /\ last.res.found.dist = last.res.maxDistance
  /\ last.res.found.dist > 0
  /\ \E i \in 1..Len(last.res.known), j \in 1..Len(last.res.known) :
       /\ i < j
       /\ last.res.known[i] = last.res.found.name
       /\ Distances[last.res.input, last.res.known[j]] = last.res.found.dist

(***************************************************************************)
(* evaluateCondition and ClearExpressionCache step by step (engine.go:     *)
(* 171-256): goroutines evaluate conditions concurrently; the cache is     *)
(* read under cacheMu.RLock and written under cacheMu.Lock, and compiling  *)
(* and running happen outside the lock.                                    *)
(***************************************************************************)
\* the condition sources evaluated, one of which does not compile
EvalConditions == {condAdmin, condNotAdmin, condAmount, condUnknownName}

\* the calls the conditions are evaluated for
EvalCalls == {tc \in ToolCalls : tc.Name = "weather" /\ tc.Parameters = EmptyMap}

\* evaluateCondition is entered (engine.go:178-217: env is built)
BeginEvaluate(t, condition, tc) ==
  /\ evals[t].pc = "idle"
  /\ evals' = [evals EXCEPT ![t] =
                 [NoEval EXCEPT !.pc = "rlock", !.condition = condition, !.tc = tc]]
  /\ UNCHANGED <<toolSchemas, policies, exprCache, last, mu, calls, cacheMu>>
  /\ UNCHANGED <<serverVars, agent>>

\* cacheMu.RLock() (engine.go:219)
CacheRLock(t) ==
  /\ evals[t].pc = "rlock"
  /\ CanRLock(cacheMu)
  /\ cacheMu' = [cacheMu EXCEPT !.readers = @ + 1]
  /\ evals' = [evals EXCEPT ![t].pc = "load"]
  /\ UNCHANGED <<toolSchemas, policies, exprCache, last, mu, calls>>
  /\ UNCHANGED <<serverVars, agent>>

\* program, exists := exprCache[condition] (engine.go:220)
CacheLoad(t) ==
  /\ evals[t].pc = "load"
  /\ evals' = [evals EXCEPT
                 ![t].pc = "runlock",
                 ![t].exists = CacheKey(evals[t].condition) \in DOMAIN exprCache,
                 ![t].program =
                    IF CacheKey(evals[t].condition) \in DOMAIN exprCache
                    THEN exprCache[CacheKey(evals[t].condition)]
                    ELSE Nil]
  /\ UNCHANGED <<toolSchemas, policies, exprCache, last, mu, calls, cacheMu>>
  /\ UNCHANGED <<serverVars, agent>>

\* cacheMu.RUnlock() (engine.go:221)
CacheRUnlock(t) ==
  /\ evals[t].pc = "runlock"
  /\ cacheMu' = [cacheMu EXCEPT !.readers = @ - 1]
  /\ evals' = [evals EXCEPT ![t].pc = IF evals[t].exists THEN "run" ELSE "compile"]
  /\ UNCHANGED <<toolSchemas, policies, exprCache, last, mu, calls>>
  /\ UNCHANGED <<serverVars, agent>>

\* expr.Compile (engine.go:226-229): an error returns at once
CompileStep(t) ==
  /\ evals[t].pc = "compile"
  /\ evals' = [evals EXCEPT ![t] =
                 IF Compiles(evals[t].condition)
                 THEN [@ EXCEPT !.pc = "lock", !.program = Compile(evals[t].condition)]
                 ELSE [@ EXCEPT !.pc = "return", !.match = FALSE, !.err = TRUE]]
  /\ UNCHANGED <<toolSchemas, policies, exprCache, last, mu, calls, cacheMu>>
  /\ UNCHANGED <<serverVars, agent>>

\* cacheMu.Lock() (engine.go:232)
CacheLock(t) ==
  /\ evals[t].pc = "lock"
  /\ CanLock(cacheMu)
  /\ cacheMu' = [cacheMu EXCEPT !.writer = TRUE]
  /\ evals' = [evals EXCEPT ![t].pc = "store"]
  /\ UNCHANGED <<toolSchemas, policies, exprCache, last, mu, calls>>
  /\ UNCHANGED <<serverVars, agent>>

\* exprCache[condition] = program (engine.go:233)
CacheStore(t) ==
  /\ evals[t].pc = "store"
  /\ exprCache' = Put(exprCache, CacheKey(evals[t].condition), evals[t].program)
  /\ evals' = [evals EXCEPT ![t].pc = "unlock"]
  /\ UNCHANGED <<toolSchemas, policies, last, mu, calls, cacheMu>>
  /\ UNCHANGED <<serverVars, agent>>

\* cacheMu.Unlock() (engine.go:234)
CacheUnlock(t) ==
  /\ evals[t].pc = "unlock"
  /\ cacheMu' = [cacheMu EXCEPT !.writer = FALSE]
  /\ evals' = [evals EXCEPT ![t].pc = "run"]
  /\ UNCHANGED <<toolSchemas, policies, exprCache, last, mu, calls>>
  /\ UNCHANGED <<serverVars, agent>>

\* expr.Run and the conversion to bool (engine.go:237-247)
RunStep(t) ==
  /\ evals[t].pc = "run"
  /\ evals' = [evals EXCEPT
                 ![t].pc = "return",
                 ![t].err = RunProgram(evals[t].program, evals[t].tc).err,
                 ![t].match = /\ ~RunProgram(evals[t].program, evals[t].tc).err
                              /\ RunProgram(evals[t].program, evals[t].tc).value]
  /\ UNCHANGED <<toolSchemas, policies, exprCache, last, mu, calls, cacheMu>>
  /\ UNCHANGED <<serverVars, agent>>

\* evaluateCondition returns (match, err)
ReturnStep(t) ==
  /\ evals[t].pc = "return"
  /\ last' = Op("evaluateCondition", ~evals[t].err, evals[t].tc,
                [match |-> evals[t].match, err |-> evals[t].err], <<>>, FALSE)
  /\ evals' = [evals EXCEPT ![t] = NoEval]
  /\ UNCHANGED <<toolSchemas, policies, exprCache, mu, calls, cacheMu>>
  /\ UNCHANGED <<serverVars, agent>>

\* ClearExpressionCache is entered (engine.go:252)
BeginClear(t) ==
  /\ evals[t].pc = "idle"
  /\ evals' = [evals EXCEPT ![t] = [NoEval EXCEPT !.pc = "clearlock"]]
  /\ UNCHANGED <<toolSchemas, policies, exprCache, last, mu, calls, cacheMu>>
  /\ UNCHANGED <<serverVars, agent>>

\* ClearExpressionCache: cacheMu.Lock() (engine.go:253)
ClearLock(t) ==
  /\ evals[t].pc = "clearlock"
  /\ CanLock(cacheMu)
  /\ cacheMu' = [cacheMu EXCEPT !.writer = TRUE]
  /\ evals' = [evals EXCEPT ![t].pc = "clear"]
  /\ UNCHANGED <<toolSchemas, policies, exprCache, last, mu, calls>>
  /\ UNCHANGED <<serverVars, agent>>

\* ClearExpressionCache: a fresh map, then the deferred Unlock (engine.go:254-255)
ClearCache(t) ==
  /\ evals[t].pc = "clear"
  /\ exprCache' = EmptyMap
  /\ cacheMu' = [cacheMu EXCEPT !.writer = FALSE]
  /\ evals' = [evals EXCEPT ![t] = NoEval]
  /\ last' = Op("ClearExpressionCache", TRUE, NoCall, Nil, <<>>, FALSE)
  /\ UNCHANGED <<toolSchemas, policies, mu, calls>>
  /\ UNCHANGED <<serverVars, agent>>

NextCache ==
  \/ \E t \in Goroutines, condition \in EvalConditions, tc \in EvalCalls :
       BeginEvaluate(t, condition, tc)
  \/ \E t \in Goroutines : CacheRLock(t)
  \/ \E t \in Goroutines : CacheLoad(t)
  \/ \E t \in Goroutines : CacheRUnlock(t)
  \/ \E t \in Goroutines : CompileStep(t)
  \/ \E t \in Goroutines : CacheLock(t)
  \/ \E t \in Goroutines : CacheStore(t)
  \/ \E t \in Goroutines : CacheUnlock(t)
  \/ \E t \in Goroutines : RunStep(t)
  \/ \E t \in Goroutines : ReturnStep(t)
  \/ \E t \in Goroutines : BeginClear(t)
  \/ \E t \in Goroutines : ClearLock(t)
  \/ \E t \in Goroutines : ClearCache(t)

SpecCache == Init /\ [][NextCache]_vars

(***************************************************************************)
(* C22.  In every interleaving of concurrent evaluations and cache         *)
(* clearings, each cache entry holds the program compiled from the very    *)
(* source it is filed under, and an evaluation about to return yields what *)
(* a fresh compilation of its condition yields for its call, whether its   *)
(* program came from the cache or not.                                     *)
(***************************************************************************)
C22_CacheIsTransparent ==
  /\ \A source \in DOMAIN exprCache : exprCache[source] = Compile(source)
  /\ \A t \in Goroutines :
       evals[t].pc = "return" =>
         IF ~Compiles(evals[t].condition)
         THEN evals[t].err /\ ~evals[t].match
         ELSE LET fresh == RunProgram(Compile(evals[t].condition), evals[t].tc)
              IN /\ evals[t].err = fresh.err
                 /\ evals[t].match = (~fresh.err /\ fresh.value)

\* both goroutines missed the cache for the same source and both compiled
\* it: one has installed its program and finished with a true result, the
\* other is about to install its own
C22_Witness ==
  /\ evals["g1"].pc = "return"
  /\ ~evals["g1"].exists
  /\ evals["g1"].match
  /\ evals["g2"].pc = "store"
  /\ evals["g2"].condition = evals["g1"].condition
  /\ CacheKey(evals["g1"].condition) \in DOMAIN exprCache

(***************************************************************************)
(* C23.  A validation leaves the schema registry and every per-tool policy *)
(* list, order included, as they were; of the package state only the       *)
(* expression cache may change.                                            *)
(***************************************************************************)
C23_ValidationReadsOnly ==
  [][ last'.op \in {"ValidateToolCall", "ValidateAndPolicy"} =>
        /\ toolSchemas' = toolSchemas
        /\ policies' = policies ]_vars

\* a validator has evaluated a call whose tool has a policy of its own while
\* a wildcard policy of higher priority is registered, so that the list
\* GetAllPolicies sorted is in another order than the two registry lists
C23_Witness ==
  /\ last.op = "ValidateAndPolicy"
  /\ last.res.PolicyAction = PolicyReject
  /\ last.tc.Name \in DOMAIN policies
  /\ Wildcard \in DOMAIN policies
  /\ GetAllPolicies(policies, last.tc.Name)
       # PoliciesOf(policies, last.tc.Name) \o PoliciesOf(policies, Wildcard)
  /\ exprCache # EmptyMap

(***************************************************************************)
(* cmd/server: rateLimitMiddleware in front of apiKeyMiddleware and        *)
(* rest.ValidateHandler (main.go:18-76, 113-116).  The limiter decides     *)
(* under rateLimitMu, so a request is one step; `passed` counts, per       *)
(* client IP, the requests that reached the handler in each tick of the    *)
(* last minute.                                                            *)
(***************************************************************************)
\* "Remove port if present" (main.go:33-36): drops a last byte that is ':'
StripPort(ip) ==
  LET colon == Len(ip) - 1
  IN IF colon > 0 /\ CharAt(ip, colon) = ":" THEN SubSeq(ip, 1, colon) ELSE ip

\* the bodies sent to the server
ServerRequests ==
  {req \in ValidationRequests :
     /\ Len(req.ToolCalls) <= 1
     /\ req.Context = [UserRole |-> ""]
     /\ \A i \in 1..Len(req.ToolCalls) :
          /\ req.ToolCalls[i].Parameters = EmptyMap
          /\ req.ToolCalls[i].Name = "weather"}

\* info.count of the client, 0 when the map has no entry
CountOf(map, ip) == IF ip \in DOMAIN map THEN map[ip].count ELSE 0

\* one more request that reached rest.ValidateHandler in the current tick
Pass(p, addr) ==
  [p EXCEPT ![ClientIP(addr)][TicksPerMinute] = @ + 1]

\* one request through rateLimitMiddleware(apiKeyMiddleware(ValidateHandler))
ServeRequest(addr, authorized, req) ==
  LET ip == StripPort(addr)
      newWindow == \/ ip \notin DOMAIN rateLimitMap
                   \/ now - rateLimitMap[ip].timestamp > TicksPerMinute
      limited == ~newWindow /\ rateLimitMap[ip].count >= rateLimit
      after == IF newWindow THEN Put(rateLimitMap, ip, [count |-> 1, timestamp |-> now])
               ELSE IF limited THEN rateLimitMap
               ELSE [rateLimitMap EXCEPT ![ip].count = @ + 1]
      answer(status, results) ==
        Op("rateLimitMiddleware", ~limited, req,
           [status |-> status, results |-> results,
            before |-> IF newWindow THEN 0 ELSE CountOf(rateLimitMap, ip),
            after |-> CountOf(after, ip)],
           <<>>, FALSE)
  IN /\ addr = SecondConnection => CountOf(after, ip) <= MaxSecondConnection
     /\ rateLimitMap' = after
     /\ passed' = IF limited \/ ~authorized THEN passed ELSE Pass(passed, addr)
     /\ IF limited
        THEN /\ last' = answer(429, <<>>)
             /\ UNCHANGED exprCache
        ELSE IF ~authorized
        THEN /\ last' = answer(401, <<>>)
             /\ UNCHANGED exprCache
        ELSE IF Len(req.ToolCalls) = 0
        THEN /\ last' = answer(400, <<>>)
             /\ UNCHANGED exprCache
        ELSE \E out \in handlerLoop(req.ToolCalls, req.Context, exprCache) :
               /\ exprCache' = out.cache
               /\ last' = answer(200, out.results)
     /\ UNCHANGED <<toolSchemas, policies, mu, calls, cacheMu, evals, now, agent>>

\* time passes: time.Now() is a minute later
Tick ==
  /\ now < MaxTick
  /\ now' = now + 1
  /\ passed' = [ip \in DOMAIN passed |-> Tail(passed[ip]) \o <<0>>]
  /\ UNCHANGED <<toolSchemas, policies, exprCache, last, mu, calls, cacheMu, evals,
                 rateLimitMap, agent>>

NextServer ==
  \/ \E addr \in RemoteAddrs, authorized \in BOOLEAN, req \in ServerRequests :
       ServeRequest(addr, authorized, req)
  \/ Tick

SpecServer == Init /\ [][NextServer]_vars

\* sum of a sequence of numbers
RECURSIVE Sum(_)
Sum(xs) == IF xs = <<>> THEN 0 ELSE Head(xs) + Sum(Tail(xs))

(***************************************************************************)
(* C24.  For each client IP at most 60 requests are handed to the handler  *)
(* within one minute, and a request answered 429 leaves the client's count *)
(* as it was.                                                              *)
(***************************************************************************)
C24_RateLimitPerIP ==
  /\ \A ip \in DOMAIN passed : Sum(passed[ip]) <= rateLimit
  /\ (last.op = "rateLimitMiddleware" /\ last.res.status = 429) =>
       last.res.after = last.res.before

(***************************************************************************)
(* C25.  A load that returns a failure leaves the policy registry and the  *)
(* schema registry exactly as they were, so the policies loaded before     *)
(* stay in force and every validation answers as it did before.            *)
(***************************************************************************)
C25_FailedLoadChangesNothing ==
  [][ ( /\ last'.op \in {"LoadPoliciesFromYAML", "LoadSchemasFromYAML"}
        /\ ~last'.ok )
      => /\ policies' = policies
         /\ toolSchemas' = toolSchemas
         /\ \A tc \in ToolCalls :
              EvaluatePolicy(policies', tc, exprCache').result
                = EvaluatePolicy(policies, tc, exprCache).result ]_vars

\* a policy load has failed while a schema and a rejecting policy loaded
\* earlier stand in the registries
C25_Witness ==
  /\ last.op = "LoadPoliciesFromYAML"
  /\ ~last.ok
  /\ FallbackReject \in Range(PoliciesOf(policies, Wildcard))
  /\ "weather" \in DOMAIN toolSchemas

(***************************************************************************)
(* C26.  Every result that allows execution designates a registered tool   *)
(* whose schema the carried parameters satisfy: the request's name when    *)
(* the status is approved, the suggested name when it is rewritten.        *)
(***************************************************************************)
C26_AllowedToolExists ==
  (IsValidation /\ last.res.ExecutionAllowed) =>
    LET rewritten == last.res.Status = "rewritten"
        name == IF rewritten THEN last.res.SuggestedCorrection.Name
                ELSE last.tc.Name
        params == IF rewritten THEN last.res.SuggestedCorrection.Parameters
                  ELSE last.tc.Parameters
    IN /\ name \in DOMAIN toolSchemas
       /\ \A order \in Orders(DOMAIN toolSchemas[name].Parameters) :
            ~ValidateParameters(toolSchemas[name], params, order).failed

(***************************************************************************)
(* The scaffold agent: StandardAgent.ExecuteToolCall (agent.go:137-217).   *)
(* The agent validates the call through its Guard and switches on the      *)
(* result's PolicyAction; on REWRITE it calls itself with the suggested    *)
(* call.  One action is one invocation of the function: the outer call or  *)
(* the recursive one of agent.go:188.                                      *)
(***************************************************************************)
\* the invocations of ExecuteToolCall the goroutine's stack has room for: it
\* stands for the Go runtime's maximum stack size, and is larger than every
\* chain of rewrites that ends (no such chain visits a name twice)
MaxFrames == 4

\* a.tools, the agent's own registry of tool functions (agent.go:49, 69)
AgentTools == {"weather", "tether"}

\* the calls the model's response can ask for, and the user's roles
AgentCalls == [Name : {"weather", "wheather", "tether"}, Parameters : ParameterMaps]
AgentRoles == {"admin", ""}

\* the policies the agent's Guard is configured with
EmptyTargetRewrite == Policy("weather", PolicyRewrite, "", "", 0, "")
AgentPolicies ==
  { EmptyTargetRewrite,
    Policy("weather", PolicyRewrite, "", "", 0, "tether"),
    Policy("tether", PolicyRewrite, "", "", 0, "weather"),
    Policy("weather", PolicyRateLimit, "", "", 0, ""),
    Policy("tether", PolicyContextReject, condNotAdmin, "", 0, ""),
    WeatherAllow, FallbackReject, TypoRewrite }

\* hguardToolCall as built at agent.go:145-159
HguardToolCall(call, role) ==
  [ID |-> "call_1", Name |-> call.Name, Parameters |-> call.Parameters,
   Context |-> [UserRole |-> role], Timestamp |-> "t0"]

\* the default case of the switch runs the tool whatever the result says
ExecutesUnlessNamed(result) ==
  result.PolicyAction \notin {PolicyReject, PolicyRewrite}

\* whether the switch of agent.go:164-216 reaches the tool function
Executes(result) ==
  IF result.PolicyAction = PolicyAllow THEN TRUE
  ELSE IF result.PolicyAction \in {PolicyReject, PolicyRewrite} THEN FALSE
  ELSE result.ExecutionAllowed

\* the agent after one invocation that got `result` from the Guard
AfterSwitch(call, role, result) ==
  LET returned(executed, output) ==
        [pc |-> "returned", toolCall |-> call, role |-> role,
         result |-> result, executed |-> executed, output |-> output,
         frames |-> 0]
  IN IF Executes(result)
     THEN IF call.Name \in AgentTools
          THEN returned(call, "output")
          ELSE returned(Nil, "Tool not found")
     ELSE IF result.PolicyAction = PolicyReject
     THEN returned(Nil, "Tool call rejected")
     ELSE IF result.PolicyAction = PolicyRewrite
     THEN IF result.SuggestedCorrection # Nil
          THEN [pc |-> "rewriting",
                toolCall |-> [Name |-> result.SuggestedCorrection.Name,
                              Parameters |-> result.SuggestedCorrection.Parameters],
                role |-> role, result |-> result, executed |-> Nil, output |-> "",
                frames |-> 0]
          ELSE returned(Nil, "Tool call needs rewriting but no suggestion provided")
     ELSE returned(Nil, "Tool call not allowed")

\* one invocation: Guard.ValidateToolCall (agent.go:161), then the switch;
\* `frames` counts the invocations now on the goroutine's stack
Invocation(call, role, frames) ==
  LET tc == HguardToolCall(call, role)
  IN \E known \in Orders(DOMAIN toolSchemas), order \in ParameterOrders(tc.Name) :
       LET v == ValidateAndPolicyOn(toolSchemas, policies, exprCache, tc, known, order)
       IN /\ exprCache' = v.cache
          /\ policies' =
               IF /\ tc.Name \in DOMAIN toolSchemas
                  /\ ValidateParameters(toolSchemas[tc.Name], tc.Parameters, order).failed
               THEN policies
               ELSE PoliciesAfterGetAll(policies, tc.Name)
          /\ agent' = [AfterSwitch(call, role, GuardResult(v.res))
                         EXCEPT !.frames = frames]
          /\ last' = Op("ExecuteToolCall", TRUE, tc, GuardResult(v.res), <<>>, FALSE)
          /\ UNCHANGED <<toolSchemas, mu, calls, cacheVars, serverVars>>

\* StandardAgent.ExecuteToolCall called by ProcessMessage (agent.go:112)
ExecuteToolCall(call, role) ==
  /\ agent.pc \in {"idle", "returned"}
  /\ Invocation(call, role, 1)

\* the call the agent makes to itself at agent.go:188
ExecuteRewrittenCall ==
  /\ agent.pc = "rewriting"
  /\ agent.frames < MaxFrames
  /\ Invocation(agent.toolCall, agent.role, agent.frames + 1)

\* the same call when the goroutine's stack is full: the Go runtime ends the
\* process with "fatal error: stack overflow"
StackOverflow ==
  /\ agent.pc = "rewriting"
  /\ agent.frames = MaxFrames
  /\ agent' = [agent EXCEPT !.pc = "stack overflow"]
  /\ UNCHANGED <<toolSchemas, policies, exprCache, last, mu, calls, cacheVars,
                 serverVars>>

\* NewStandardAgent (agent.go:54-73) loads the schemas and the policies into
\* the Guard before it returns the agent
ConfigureSchema(schema) ==
  /\ agent.pc = "idle"
  /\ RegisterToolSchema(schema)

ConfigurePolicy(p) ==
  /\ agent.pc = "idle"
  /\ RegisterPolicy(p)

NextAgent ==
  \/ \E schema \in SchemaCatalogue : ConfigureSchema(schema)
  \/ \E p \in AgentPolicies : ConfigurePolicy(p)
  \/ \E call \in AgentCalls, role \in AgentRoles : ExecuteToolCall(call, role)
  \/ ExecuteRewrittenCall
  \/ StackOverflow

SpecAgent == Init /\ [][NextAgent]_vars

\* the goroutine that runs the agent keeps running
SpecAgentFair == SpecAgent /\ WF_vars(ExecuteRewrittenCall \/ StackOverflow)

\* C27: StandardAgent.ExecuteToolCall terminates: an agent that calls
\* itself with a rewritten call eventually returns, also when a REWRITE
\* policy has an empty target or the targets form a cycle
C27_ExecuteToolCallTerminates ==
  (agent.pc = "rewriting") ~> (agent.pc = "returned")

\* C28: the agent runs a tool function only for the name and parameters
\* that Guard.ValidateToolCall has just allowed in the same invocation, and
\* no result of the Guard has policy_action ALLOW with execution_allowed
\* false
C28_AgentExecutesOnlyAllowed ==
  /\ agent.result # Nil =>
       ~(agent.result.PolicyAction = PolicyAllow /\ ~agent.result.ExecutionAllowed)
  /\ agent.executed # Nil =>
       /\ last.op = "ExecuteToolCall"
       /\ last.res = agent.result
       /\ last.res.ExecutionAllowed
       /\ last.tc.Name = agent.executed.Name
       /\ last.tc.Parameters = agent.executed.Parameters

\* the agent ran a tool that the Guard allowed after a rewrite
C28_Witness ==
  /\ agent.executed # Nil
  /\ agent.frames > 1
  /\ agent.result.PolicyAction = PolicyAllow

(***************************************************************************)
(* C29.  The registries are never accessed without synchronisation across  *)
(* Guards: while a goroutine is inside a load through one Guard, no other  *)
(* goroutine is inside a load or a validation, through whichever Guard.    *)
(***************************************************************************)
C29_LoadsExcludeAcrossGuards ==
  \A t \in Goroutines, u \in Goroutines :
    (t # u /\ InLoad(t)) => (~InLoad(u) /\ ~InValidation(u))

(***************************************************************************)
(* Requests with and without a context through the facade                  *)
(* (part_010:179-222): a nil Context becomes the zero model.CallContext.   *)
(***************************************************************************)
\* the public CallContext a request can carry; Nil is the omitted context
PublicContexts ==
  {Nil} \cup [UserRole : {"admin", ""}, UserPermissions : {<<>>, <<"p">>},
              PreviousCalls : {<<>>, <<"X">>}]

\* hallucinationguard.ToolCall
PublicCalls ==
  [Name : {"weather", "stock"}, Parameters : ParameterMaps, Context : PublicContexts]

\* the gates of a role-based configuration
RoleGate == Policy("weather", PolicyReject, condNotAdmin, "admins only", 1, "")
PermissionAllow == Policy("weather", PolicyAllow, condHasPermission, "", 2, "")
PreviousCallReject == Policy("weather", PolicyReject, condPreviousCall, "", 2, "")
GatePolicies == {RoleGate, PermissionAllow, PreviousCallReject, FallbackReject}

\* a conversion that takes the caller without a context for an administrator
InternalContextAsAdmin(ctx) ==
  IF ctx = Nil
  THEN [UserRole |-> "admin", UserPermissions |-> <<>>, PreviousCalls |-> <<>>]
  ELSE ctx

\* internalContext (part_010:186-199): the zero value unless tc.Context is set
InternalContext(ctx) ==
  IF ctx = Nil
  THEN [UserRole |-> "", UserPermissions |-> <<>>, PreviousCalls |-> <<>>]
  ELSE [UserRole |-> ctx.UserRole, UserPermissions |-> ctx.UserPermissions,
        PreviousCalls |-> ctx.PreviousCalls]

\* internalCall (part_010:201-208)
InternalCall(tc) ==
  [ID |-> "call_1", Name |-> tc.Name, Parameters |-> tc.Parameters,
   Context |-> InternalContext(tc.Context), Timestamp |-> "t0"]

\* Guard.ValidateToolCall (part_010:179-246), run without interleaving
GuardValidateToolCall(tc) ==
  LET internalCall == InternalCall(tc)
  IN \E known \in Orders(DOMAIN toolSchemas),
        order \in ParameterOrders(internalCall.Name) :
       LET v == ValidateAndPolicyOn(toolSchemas, policies, exprCache,
                                    internalCall, known, order)
       IN /\ exprCache' = v.cache
          /\ last' = Op("Guard.ValidateToolCall", TRUE, tc, GuardResult(v.res),
                        <<>>, FALSE)
          /\ policies' =
               IF /\ tc.Name \in DOMAIN toolSchemas
                  /\ ValidateParameters(toolSchemas[tc.Name], tc.Parameters,
                                        order).failed
               THEN policies
               ELSE PoliciesAfterGetAll(policies, tc.Name)
          /\ UNCHANGED toolSchemas
          /\ UNCHANGED guardVars

NextContext ==
  \/ \E schema \in SchemaCatalogue : RegisterToolSchema(schema)
  \/ \E p \in GatePolicies : RegisterPolicy(p)
  \/ \E tc \in PublicCalls : GuardValidateToolCall(tc)

SpecContext == Init /\ [][NextContext]_vars

\* the conditions that read the caller's role, permissions or earlier calls
GateConditions == {condNotAdmin, condHasPermission, condPreviousCall}

\* the registered policies for the request that decide a caller without
\* context: the unconditional ones and the gates on "not an administrator"
DecisiveWithoutContext(all) ==
  {i \in 1..Len(all) : all[i].Condition \in {"", condNotAdmin}}

(***************************************************************************)
(* C30.  A request without context fails closed on role gates: its         *)
(* conditions evaluate without error on the zero context, a gate on        *)
(* "user.role != 'admin'" matches, and the gates on a permission or on an  *)
(* earlier call do not match, so the decision is that of the first         *)
(* registered policy that is unconditional or gates on the role.           *)
(***************************************************************************)
C30_NoContextFailsClosed ==
  (/\ last.op = "Guard.ValidateToolCall"
   /\ last.tc.Context = Nil
   /\ last.tc.Name \in DOMAIN toolSchemas
   /\ \A order \in ParameterOrders(last.tc.Name) :
        ~ValidateParameters(toolSchemas[last.tc.Name], last.tc.Parameters,
                            order).failed) =>
    LET all == GetAllPolicies(policies, last.tc.Name)
        decisive == DecisiveWithoutContext(all)
        first == CHOOSE i \in decisive : \A j \in decisive : i <= j
    IN /\ \A i \in 1..Len(all) :
            (all[i].Condition \in GateConditions /\ (decisive = {} \/ i <= first)) =>
              /\ all[i].Condition \in DOMAIN exprCache
              /\ ~ConditionErrs(all[i], InternalCall(last.tc))
       /\ IF decisive = {}
          THEN last.res.PolicyAction = PolicyAllow /\ last.res.ExecutionAllowed
          ELSE /\ last.res.PolicyAction = all[first].Type
               /\ all[first].Type = PolicyReject => ~last.res.ExecutionAllowed

\* a request without context was rejected by the role gate although a
\* permission gate of higher priority would allow a caller with permission
C30_Witness ==
  /\ last.op = "Guard.ValidateToolCall"
  /\ last.tc.Context = Nil
  /\ last.res.Status = "rejected"
  /\ last.res.Error = "admins only"
  /\ PermissionAllow \in Range(PoliciesOf(policies, "weather"))
====
